---- MODULE Spec2Model ----
(***************************************************************************)
(* Detection post-processing, crop geometry and save flow of the tree      *)
(* inventory application.                                                  *)
(*                                                                         *)
(* Numbers.  Real numbers of the program are modelled as exact fixed-point *)
(* integers:                                                               *)
(*   - raw tensor coordinates are pixels of the 640x640 network input;     *)
(*   - a confidence c is the integer 100*c (0.5 is 50);                    *)
(*   - a normalized (relative) coordinate r is the integer Den*r, so 1.0   *)
(*     is Den and p/640 is p*Den/640, exact because 640 divides Den.       *)
(* Floating-point rounding error (at most an ulp) is outside the model.    *)
(***************************************************************************)
EXTENDS Integers, Sequences, FiniteSets, TLC

VARIABLES
    yoloModel,      \* index.tsx: let yoloModel (the inference session)
    fetches,        \* yoloInference.ts: result of yoloModel.run(feeds)
    yoloResult,     \* yoloInference.ts: outcome of runYOLOInference
    cropIn,         \* arguments of a crop checked on its own: box and image size
    cropOut,        \* its outcome: the rectangle handed to manipulateAsync
    detectedTrees,  \* tree-detection.tsx: useState<DetectedTree[]>
    loading,        \* tree-detection.tsx: useState(true)
    saving,         \* tree-detection.tsx: useState(false)
    alerts,         \* titles of the Alert.alert calls made, oldest first
    detPc,          \* position of runTreeDetection
    savePc,         \* position of saveSelectedTrees
    selectedTrees,  \* saveSelectedTrees: const selectedTrees
    saveIdx,        \* saveSelectedTrees: position of the for-of loop (1-based)
    cropPath,       \* saveSelectedTrees: let cropPath
    currentDate,    \* saveSelectedTrees: const currentDate
    cropCalls,      \* ids passed to cropTreeWithDimensions, oldest first
    cropFailed,     \* loop positions of the running save whose crop threw
    insertFailed,   \* whether insertTree threw in the running save
    atPress,        \* what the last press on the save button found
    clock,          \* the wall clock read by new Date()
    modelPc,        \* index.tsx: position of loadYOLOModel
    dbPc,           \* index.tsx: position of initializeDatabase
    db,             \* treeDatabase.ts: TreeDatabase.db
    initialized,    \* treeDatabase.ts: TreeDatabase.initialized
    trees,          \* treeDatabase.ts: rows of table trees, in insertion order
    nextTreeId,     \* treeDatabase.ts: AUTOINCREMENT counter of table trees
    preIn,          \* preprocessImage.ts: what the resize and the PNG decoder yield
    preOut,         \* preprocessImage.ts: outcome of preprocessImage
    defects,        \* treeDatabase.ts: rows of table defects, in insertion order
    nextDefectId,   \* treeDatabase.ts: AUTOINCREMENT counter of table defects
    foreignKeys,    \* whether the connection enforces foreign keys
    detailId,       \* tree detail screen: the route parameter id
    detailPc,       \* tree detail screen: not yet loaded, shown or left
    detailTree,     \* tree detail screen: useState<TreeRecord | null>
    detailDefects,  \* tree detail screen: useState<DefectRecord[]>
    generatingDescription,  \* tree detail screen: useState(false)
    genPc,          \* position of generateDescription
    genTree,        \* generateDescription: the tree of the render it closed over
    genTaxon,       \* generateDescription: const taxonName
    detectionResponse,  \* detectDefects: detectionResponse.results
    detectedDefects,    \* processDefectsForTree: const detectedDefects
    defectRecords,  \* generateDescription: const defectRecords
    genIdx,         \* generateDescription: position of the insert loop (1-based)
    insertedDefects,    \* generateDescription: const insertedDefects
    addPc,          \* position of takePhoto / selectFromGallery
    addTree,        \* takePhoto: the tree of the render it closed over
    addUri,         \* takePhoto: the URI appended to the list
    addImages,      \* takePhoto: const newImages
    delPc,          \* position of the confirmed deleteImage
    delTree,        \* deleteImage: the tree of the render it closed over
    delImages,      \* deleteImage: const newImages
    shots,          \* photos picked so far
    passes,         \* presses on the analysis button so far
    added,          \* URIs whose add-photo completed
    removed,        \* URIs whose deletion the user confirmed
    boxIn,          \* renderBoundingBox(es): container, image and normalized box
    boxOut,         \* what the detection screen and the detail screen draw
    updIn,          \* treeDatabase.ts: arguments and table of an updateTree call
    updOut,         \* its outcome: statements issued, thrown or not
    written,        \* files copied into the document directory by the crops
    initPc,         \* treeDatabase.ts: position of each caller of init()
    opened          \* calls of SQLite.openDatabaseAsync so far

vars == <<yoloModel, fetches, yoloResult, cropIn, cropOut, detectedTrees, loading,
          saving, alerts, detPc, savePc, selectedTrees, saveIdx, cropPath,
          currentDate, cropCalls, cropFailed, insertFailed, clock, modelPc,
          dbPc, db, initialized, trees, nextTreeId, atPress, preIn, preOut,
          defects, nextDefectId, foreignKeys, detailId, detailPc, detailTree,
          detailDefects, generatingDescription, genPc, genTree, genTaxon,
          detectionResponse, detectedDefects, defectRecords, genIdx,
          insertedDefects, addPc, addTree, addUri, addImages, delPc, delTree,
          delImages, shots, passes, added, removed, boxIn, boxOut, updIn,
          updOut, written, initPc, opened>>

decodeVars == <<yoloModel, fetches, yoloResult>>
cropVars == <<cropIn, cropOut>>
dbVars == <<db, initialized, trees, nextTreeId>>
saveVars == <<savePc, selectedTrees, saveIdx, cropPath, currentDate, cropCalls,
              cropFailed, insertFailed, atPress>>
preVars == <<preIn, preOut>>
layoutVars == <<boxIn, boxOut>>
updateVars == <<updIn, updOut>>
callerVars == <<initPc, opened>>
\* state of the specifications that run one function or one race on its own
unitVars == <<layoutVars, updateVars, written, callerVars>>
defectVars == <<defects, nextDefectId, foreignKeys>>
genVars == <<generatingDescription, genPc, genTree, genTaxon, detectionResponse,
             detectedDefects, defectRecords, genIdx, insertedDefects, passes>>
addVars == <<addPc, addTree, addUri, addImages, shots>>
delVars == <<delPc, delTree, delImages>>
detailVars == <<defectVars, detailId, detailPc, detailTree, detailDefects, genVars,
                addVars, delVars, added, removed>>
screenVars == <<detectedTrees, loading, saving, alerts, detPc, saveVars, clock,
                modelPc, dbPc, dbVars>>

-----------------------------------------------------------------------------
(* Bounds and program constants *)

MaxRows == 2            \* rows of a raw output tensor
MaxSaves == 1           \* invocations of saveSelectedTrees on one screen
MaxPresses == 2         \* the same, where a save is repeated
MaxClock == 1           \* ticks of the wall clock
MaxPasses == 1          \* presses on the analysis button of one detail screen
MaxPhotos == 1          \* photos added on one detail screen
MaxAlerts == 2          \* alerts after which a delete or clear statement no longer fails
MaxBatches == 2         \* saves and analyses whose crops are written
MaxSide == 3            \* width and height of a container or an image, in points
MaxUpdates == 2         \* calls of updateTree made one after another
imageSize == 640        \* yoloInference.ts:80
confidenceThreshold == 50   \* yoloInference.ts:59 (0.5, in hundredths)
RowStride == 6          \* yoloInference.ts:66
\* fixed-point denominator of normalized coordinates (3200)
Den == 5 * imageSize

Max(a, b) == IF a >= b THEN a ELSE b
Min(a, b) == IF a <= b THEN a ELSE b

-----------------------------------------------------------------------------
(* runYOLOInference: decoding of the raw output tensor *)

\* a division by half the input side
RelHalfSide(p) == (p * Den) \div (imageSize \div 2)
\* x / imageSize, as a normalized fixed-point number
Rel(p) == (p * Den) \div imageSize

\* a clamp that forgets the lower limit
Clamp01NoLower(v) == Min(Den, v)
\* Math.max(0, Math.min(1, v))
Clamp01(v) == Max(0, Min(Den, v))

\* outputData[k] (0-based); reading past the end of a typed array is undefined
HasElem(data, k) == k + 1 <= Len(data)
Elem(data, k) == data[k + 1]

\* a filter that keeps the threshold itself
KeptAtThreshold(data, i) ==
    /\ HasElem(data, i * RowStride + 4)
    /\ Elem(data, i * RowStride + 4) >= confidenceThreshold
\* confidence > confidenceThreshold; undefined > 0.5 is false
Kept(data, i) ==
    /\ HasElem(data, i * RowStride + 4)
    /\ Elem(data, i * RowStride + 4) > confidenceThreshold

TreeId(n) == "tree_" \o ToString(n)

\* the body of the loop for a kept row i, n boxes having been pushed before
MakeTree(data, i, n) ==
    LET baseIndex == i * RowStride
        x1 == Elem(data, baseIndex)
        y1 == Elem(data, baseIndex + 1)
        x2 == Elem(data, baseIndex + 2)
        y2 == Elem(data, baseIndex + 3)
        confidence == Elem(data, baseIndex + 4)
        x1_rel == Rel(x1)
        y1_rel == Rel(y1)
        x2_rel == Rel(x2)
        y2_rel == Rel(y2)
        x == x1_rel
        y == y1_rel
        width == x2_rel - x1_rel
        height == y2_rel - y1_rel
    IN  [tree |-> [id |-> TreeId(n + 1),
                   x |-> Clamp01(x), y |-> Clamp01(y),
                   width |-> Clamp01(width), height |-> Clamp01(height),
                   xbr |-> Clamp01(x + width), ybr |-> Clamp01(y + height),
                   selected |-> TRUE],
         confidence |-> confidence]

\* for (let i = 0; i < numDetections; i++) { ... push ... }, rows i..
RECURSIVE Collect(_, _, _, _)
Collect(data, i, numDetections, acc) ==
    IF i >= numDetections THEN acc
    ELSE Collect(data, i + 1, numDetections,
                 IF Kept(data, i) THEN Append(acc, MakeTree(data, i, Len(acc)))
                 ELSE acc)

\* insertion of one item into a list sorted by confidence descending, behind
\* every item that does not compare after it (the sort is stable)
RECURSIVE InsertDesc(_, _)
InsertDesc(item, sorted) ==
    IF sorted = <<>> THEN <<item>>
    ELSE IF Head(sorted).confidence >= item.confidence
         THEN <<Head(sorted)>> \o InsertDesc(item, Tail(sorted))
         ELSE <<item>> \o sorted

\* a sort that leaves the rows in input order
SortKeepOrder(s) == s
\* detectedTreesWithConfidence.sort((a, b) => b.confidence - a.confidence)
RECURSIVE SortByConfidence(_)
SortByConfidence(s) ==
    IF s = <<>> THEN <<>>
    ELSE InsertDesc(s[Len(s)], SortByConfidence(SubSeq(s, 1, Len(s) - 1)))

\* .map((item, index) => ({...item.tree, id: `tree_${index + 1}`}))
Reassign(s) == [k \in 1..Len(s) |-> [s[k].tree EXCEPT !.id = TreeId(k)]]

\* output.dims[1]; with fewer than two dims it is undefined, and i < undefined
\* is false for every i, so the loop body never runs
NumDetections(dims) == IF Len(dims) >= 2 THEN dims[2] ELSE 0

Absent == [present |-> FALSE]
Tensor(dims, data) == [present |-> TRUE, dims |-> dims, data |-> data]

Null == "null"
Session == "InferenceSession"

\* the outcome of runYOLOInference with session model, yoloModel.run resolving
\* with f
Decode(model, f) ==
    IF model = Null \/ ~f.present
    THEN [status |-> "thrown", ranked |-> <<>>, trees |-> <<>>]
    ELSE LET ranked == SortByConfidence(
                           Collect(f.data, 0, NumDetections(f.dims), <<>>))
         IN  [status |-> "returned", ranked |-> ranked, trees |-> Reassign(ranked)]

-----------------------------------------------------------------------------
(* cropTreeWithDimensions and cropDefect: the crop rectangle *)

\* Math.round(r * side) for the normalized fixed-point number r: the nearest
\* integer, halves rounded up
RoundMul(r, side) == (2 * r * side + Den) \div (2 * Den)

\* a clamp whose width limit ignores the origin
ClampRectFullWidth(pixelX, pixelY, pixelWidth, pixelHeight, imageWidth, imageHeight) ==
    LET clampedX == Max(0, Min(pixelX, imageWidth - 1))
        clampedY == Max(0, Min(pixelY, imageHeight - 1))
    IN  [originX |-> clampedX, originY |-> clampedY,
         width |-> Max(1, Min(pixelWidth, imageWidth)),
         height |-> Max(1, Min(pixelHeight, imageHeight))]
\* a clamp that keeps one pixel of margin on the right and at the bottom
ClampRectMargin(pixelX, pixelY, pixelWidth, pixelHeight, imageWidth, imageHeight) ==
    LET clampedX == Max(0, Min(pixelX, imageWidth - 1))
        clampedY == Max(0, Min(pixelY, imageHeight - 1))
    IN  [originX |-> clampedX, originY |-> clampedY,
         width |-> Max(1, Min(pixelWidth, imageWidth - 1 - clampedX)),
         height |-> Max(1, Min(pixelHeight, imageHeight - 1 - clampedY))]
\* "Ensure coordinates are within image bounds"
ClampRect(pixelX, pixelY, pixelWidth, pixelHeight, imageWidth, imageHeight) ==
    LET clampedX == Max(0, Min(pixelX, imageWidth - 1))
        clampedY == Max(0, Min(pixelY, imageHeight - 1))
        clampedWidth == Max(1, Min(pixelWidth, imageWidth - clampedX))
        clampedHeight == Max(1, Min(pixelHeight, imageHeight - clampedY))
    IN  [originX |-> clampedX, originY |-> clampedY,
         width |-> clampedWidth, height |-> clampedHeight]

\* cropTreeWithDimensions: "Pixel coordinates"
TreePixels(coordinates, imageWidth, imageHeight) ==
    [pixelX |-> RoundMul(coordinates.x, imageWidth),
     pixelY |-> RoundMul(coordinates.y, imageHeight),
     pixelWidth |-> RoundMul(coordinates.width, imageWidth),
     pixelHeight |-> RoundMul(coordinates.height, imageHeight)]

\* cropDefect: "Pixel coordinates" of defectBbox = [xtl, ytl, xbr, ybr]
DefectPixels(defectBbox, imageWidth, imageHeight) ==
    LET xtl == defectBbox[1]
        ytl == defectBbox[2]
        xbr == defectBbox[3]
        ybr == defectBbox[4]
    IN  [pixelX |-> RoundMul(xtl, imageWidth),
         pixelY |-> RoundMul(ytl, imageHeight),
         pixelWidth |-> RoundMul(xbr - xtl, imageWidth),
         pixelHeight |-> RoundMul(ybr - ytl, imageHeight)]

Cropped(fn, px, imageWidth, imageHeight) ==
    [status |-> "cropped", fn |-> fn, pixels |-> px,
     rect |-> ClampRect(px.pixelX, px.pixelY, px.pixelWidth, px.pixelHeight,
                        imageWidth, imageHeight)]
CropThrown(fn) == [status |-> "thrown", fn |-> fn]
NoCrop == [status |-> "none"]

\* the outcome of cropTreeWithDimensions on an image of the given size; ok is
\* whether getInfoAsync, manipulateAsync and copyAsync all succeed
CropTreeOutcome(coordinates, imageWidth, imageHeight, ok) ==
    IF ok THEN Cropped("cropTreeWithDimensions",
                       TreePixels(coordinates, imageWidth, imageHeight),
                       imageWidth, imageHeight)
    ELSE CropThrown("cropTreeWithDimensions")

\* the outcome of cropDefect
CropDefectOutcome(defectBbox, imageWidth, imageHeight, ok) ==
    IF ok THEN Cropped("cropDefect",
                       DefectPixels(defectBbox, imageWidth, imageHeight),
                       imageWidth, imageHeight)
    ELSE CropThrown("cropDefect")

-----------------------------------------------------------------------------
(* treeDatabase.ts *)

Connection == "trees.db"

\* the row written by insertTree for record tree
TreeRow(id, tree) ==
    [id |-> id,
     imageUri |-> tree.imageUri,
     boundingBoxX |-> tree.boundingBox.x,
     boundingBoxY |-> tree.boundingBox.y,
     boundingBoxWidth |-> tree.boundingBox.width,
     boundingBoxHeight |-> tree.boundingBox.height,
     dateTaken |-> tree.dateTaken,
     description |-> tree.description,
     additionalImages |-> tree.additionalImages,
     cropPath |-> tree.cropPath,
     taxonName |-> Null]

\* TreeDatabase.init(): how is "returns", "openFails" (openDatabaseAsync
\* throws) or "execFails" (the schema statements throw)
InitOutcome(d, i, how) ==
    IF i /\ d # Null THEN [db |-> d, initialized |-> i, thrown |-> FALSE]
    ELSE IF how = "openFails" THEN [db |-> d, initialized |-> FALSE, thrown |-> TRUE]
    ELSE IF how = "execFails"
         THEN [db |-> Connection, initialized |-> FALSE, thrown |-> TRUE]
    ELSE [db |-> Connection, initialized |-> TRUE, thrown |-> FALSE]

InitHows == {"returns", "openFails", "execFails"}

\* TreeDatabase.insertTree(tree): init when needed, then one INSERT statement;
\* runOk is whether runAsync resolves
InsertTreeOutcome(d, i, rows, nextId, tree, how, runOk) ==
    LET o == IF d = Null \/ ~i THEN InitOutcome(d, i, how)
             ELSE [db |-> d, initialized |-> i, thrown |-> FALSE]
    IN  IF o.thrown \/ ~runOk
        THEN [db |-> o.db, initialized |-> o.initialized, trees |-> rows,
              nextTreeId |-> nextId, thrown |-> TRUE]
        ELSE [db |-> o.db, initialized |-> o.initialized,
              trees |-> Append(rows, TreeRow(nextId, tree)),
              nextTreeId |-> nextId + 1, thrown |-> FALSE]

\* useState<TreeRecord | null>(null), and the null getTreeById returns
NoTree == [present |-> FALSE]

\* the TreeRecord getTreeById builds from a row; the additionalImages column
\* holds JSON.stringify of an array of strings and JSON.parse gives the array
\* back, so the column is modelled as the sequence itself
TreeOfRow(row) ==
    [present |-> TRUE,
     id |-> row.id,
     imageUri |-> row.imageUri,
     boundingBox |-> [x |-> row.boundingBoxX, y |-> row.boundingBoxY,
                      width |-> row.boundingBoxWidth,
                      height |-> row.boundingBoxHeight],
     dateTaken |-> row.dateTaken,
     description |-> row.description,
     additionalImages |-> row.additionalImages,
     cropPath |-> row.cropPath,
     taxonName |-> row.taxonName]

HasTree(rows, id) == \E k \in 1..Len(rows) : rows[k].id = id
\* SELECT * FROM trees WHERE id = ?
GetTreeById(rows, id) ==
    IF HasTree(rows, id)
    THEN TreeOfRow(rows[CHOOSE k \in 1..Len(rows) : rows[k].id = id])
    ELSE NoTree

UpdatableFields == {"description", "additionalImages", "taxonName"}
\* an UPDATE without the WHERE clause
UpdateEveryTree(rows, id, updates) ==
    [k \in 1..Len(rows) |->
        [f \in DOMAIN rows[k] |->
            IF f \in DOMAIN updates \cap UpdatableFields
            THEN updates[f] ELSE rows[k][f]]]
\* updateTree(id, updates): updates is a record of the fields that are not
\* undefined; UPDATE trees SET <those of the three columns> WHERE id = ?
UpdateTree(rows, id, updates) ==
    [k \in 1..Len(rows) |->
        IF rows[k].id = id
        THEN [f \in DOMAIN rows[k] |->
                 IF f \in DOMAIN updates \cap UpdatableFields
                 THEN updates[f] ELSE rows[k][f]]
        ELSE rows[k]]

\* the whole of updateTree on an initialized database: without a field to set
\* it returns before any statement; runOk is whether runAsync resolves
UpdateTreeOutcome(rows, id, updates, runOk) ==
    IF DOMAIN updates \cap UpdatableFields = {}
    THEN [status |-> "returned", issued |-> 0, trees |-> rows]
    ELSE IF runOk
    THEN [status |-> "returned", issued |-> 1, trees |-> UpdateTree(rows, id, updates)]
    ELSE [status |-> "thrown", issued |-> 1, trees |-> rows]

IsReferenced(treeRows, d) == HasTree(treeRows, d.tree_id)
\* FOREIGN KEY (tree_id) REFERENCES trees (id) ON DELETE CASCADE: the defect
\* rows left once the trees table has become treeRows; SQLite acts on the
\* clause only on a connection that enforces foreign keys
Cascade(fk, defectRows, treeRows) ==
    IF fk THEN SelectSeq(defectRows, LAMBDA d : IsReferenced(treeRows, d))
    ELSE defectRows

\* DELETE FROM trees WHERE id = ?
DeleteTreeRows(rows, id) == SelectSeq(rows, LAMBDA r : r.id # id)

\* the row written by insertDefect for record defect
DefectRow(id, defect) ==
    [defect_id |-> id,
     tree_id |-> defect.tree_id,
     xtl |-> defect.xtl,
     ytl |-> defect.ytl,
     xbr |-> defect.xbr,
     ybr |-> defect.ybr,
     image_path |-> defect.image_path,
     crop_path |-> defect.crop_path,
     defect_type |-> defect.defect_type]

\* a delete that removes nothing
KeepDefects(rows, treeId) == rows
\* DELETE FROM defects WHERE tree_id = ?
DeleteDefectsByTreeId(rows, treeId) == SelectSeq(rows, LAMBDA r : r.tree_id # treeId)
\* DELETE FROM defects WHERE defect_id = ?
DeleteDefectRow(rows, defectId) == SelectSeq(rows, LAMBDA r : r.defect_id # defectId)
\* SELECT * FROM defects WHERE tree_id = ? ORDER BY defect_id ASC; rows are
\* kept in insertion order, which is the order of the AUTOINCREMENT ids
GetDefectsByTreeId(rows, treeId) == SelectSeq(rows, LAMBDA r : r.tree_id = treeId)

-----------------------------------------------------------------------------
(* defectDetection.ts *)

defectThreshold == 25   \* result.confidence > 0.25

\* the entry pushed for an API result
DefectOf(result) ==
    [image_key |-> result.key,
     defect_bbox |-> <<result.x1, result.y1, result.x2, result.y2>>,
     defect_type |-> result.label]

\* a filter that also keeps a result at the threshold
RECURSIVE DetectDefectsAtThreshold(_)
DetectDefectsAtThreshold(results) ==
    IF results = <<>> THEN <<>>
    ELSE IF Head(results).confidence >= defectThreshold
    THEN <<DefectOf(Head(results))>> \o DetectDefectsAtThreshold(Tail(results))
    ELSE DetectDefectsAtThreshold(Tail(results))
\* detectDefects once response.json() has resolved with results
RECURSIVE DetectDefects(_)
DetectDefects(results) ==
    IF results = <<>> THEN <<>>
    ELSE IF Head(results).confidence > defectThreshold
    THEN <<DefectOf(Head(results))>> \o DetectDefects(Tail(results))
    ELSE DetectDefects(Tail(results))

TreeCropKey == "tree_crop"
AdditionalKey(i) == "additional_" \o ToString(i)
\* indices an image key of the model can carry
KeyIndices == 0..3
IsAdditionalKey(key) == \E i \in KeyIndices : key = AdditionalKey(i)
\* parseInt(indexMatch[1])
KeyIndex(key) == CHOOSE i \in KeyIndices : key = AdditionalKey(i)

\* defectType.replace(/\s+/g, '_'), on the labels the model uses: one of them
\* holds white space
Underscored(defectType) ==
    IF defectType = "dry rot" THEN "dry_rot" ELSE defectType

\* a file name without the index of the defect
DefectCropPathNoIndex(treeId, defectType, defectIndex, now) ==
    "defect_" \o ToString(treeId) \o "_" \o Underscored(defectType) \o "_"
        \o ToString(now) \o ".jpg"
\* defect_${treeId}_${defectType.replace(/\s+/g, '_')}_${defectIndex}_${Date.now()}.jpg
DefectCropPath(treeId, defectType, defectIndex, now) ==
    "defect_" \o ToString(treeId) \o "_" \o Underscored(defectType) \o "_"
        \o ToString(defectIndex) \o "_" \o ToString(now) \o ".jpg"

\* <<width, height>> of the images a defect is cropped from
DefectImageSize == <<200, 160>>

\* an image lookup that takes the tree crop for every key
OriginalImageUriCropOnly(key, treeCropPath, additionalImages) == treeCropPath
\* originalImageUri for a key of one of the two known forms
OriginalImageUri(key, treeCropPath, additionalImages) ==
    IF key = TreeCropKey THEN treeCropPath
    ELSE additionalImages[KeyIndex(key) + 1]

\* the loop of processDefectsForTree from index i (0-based) on: a defect with
\* an unknown key is skipped; cropDefect throws when the key names no image
\* (the URI is undefined or the empty string) or when cropOk is false
RECURSIVE ProcessFrom(_, _, _, _, _, _, _, _)
ProcessFrom(treeId, treeCropPath, additionalImages, detected, i, acc, cropOk, now) ==
    IF i >= Len(detected) THEN [status |-> "returned", records |-> acc]
    ELSE LET defect == detected[i + 1]
             key == defect.image_key
             known == key = TreeCropKey \/ IsAdditionalKey(key)
             defined == \/ key = TreeCropKey /\ treeCropPath # ""
                        \/ /\ IsAdditionalKey(key)
                           /\ KeyIndex(key) < Len(additionalImages)
             originalImageUri ==
                 OriginalImageUri(key, treeCropPath, additionalImages)
         IN  IF ~known
             THEN ProcessFrom(treeId, treeCropPath, additionalImages, detected,
                              i + 1, acc, cropOk, now)
             ELSE IF ~defined \/ CropDefectOutcome(defect.defect_bbox,
                                     DefectImageSize[1], DefectImageSize[2],
                                     cropOk).status # "cropped"
             THEN [status |-> "thrown", records |-> <<>>]
             ELSE ProcessFrom(treeId, treeCropPath, additionalImages, detected,
                      i + 1,
                      Append(acc,
                          [tree_id |-> treeId,
                           xtl |-> defect.defect_bbox[1],
                           ytl |-> defect.defect_bbox[2],
                           xbr |-> defect.defect_bbox[3],
                           ybr |-> defect.defect_bbox[4],
                           image_path |-> originalImageUri,
                           crop_path |-> DefectCropPath(treeId, defect.defect_type,
                                                        i, now),
                           defect_type |-> defect.defect_type]),
                      cropOk, now)

ProcessHows == {"resolves", "prepareFails", "fetchFails", "cropFails"}

\* processDefectsForTree(treeId, treeCropPath, additionalImages): results is
\* what the API answers; how tells which awaited call, if any, throws
ProcessDefectsForTree(treeId, treeCropPath, additionalImages, results, how, now) ==
    IF how \in {"prepareFails", "fetchFails"}
    THEN [status |-> "thrown", detected |-> <<>>, records |-> <<>>]
    ELSE LET detected == DetectDefects(results)
             o == ProcessFrom(treeId, treeCropPath, additionalImages, detected,
                              0, <<>>, how # "cropFails", now)
         IN  [status |-> o.status, detected |-> detected, records |-> o.records]

\* the types of records in the order of their first occurrence, as the keys of
\* the object built by reduce
RECURSIVE DefectTypes(_, _)
DefectTypes(records, acc) ==
    IF records = <<>> THEN acc
    ELSE LET type == Head(records).defect_type
         IN  DefectTypes(Tail(records),
                 IF \E k \in 1..Len(acc) : acc[k] = type THEN acc
                 ELSE Append(acc, type))
CountOfType(records, type) ==
    Len(SelectSeq(records, LAMBDA r : r.defect_type = type))
RECURSIVE JoinCounts(_, _)
JoinCounts(records, types) ==
    IF types = <<>> THEN ""
    ELSE Head(types) \o ": " \o ToString(CountOfType(records, Head(types)))
             \o (IF Len(types) = 1 THEN "" ELSE ", ")
             \o JoinCounts(records, Tail(types))
DescriptionNoDefects == "no-defects"
\* let generatedDescription (the Russian wording is replaced by tokens)
GeneratedDescription(records) ==
    IF Len(records) = 0 THEN DescriptionNoDefects
    ELSE "defects: " \o JoinCounts(records, DefectTypes(records, <<>>))

-----------------------------------------------------------------------------
(* Alerts shown to the user (titles and messages are Russian in the source) *)

AlertDetectFailed == "detect-failed"     \* tree-detection.tsx:123
AlertNoTrees == "no-trees-detected"      \* tree-detection.tsx:74
AlertNoSelection == "no-selection"       \* tree-detection.tsx:147
AlertSaved == "saved"                    \* tree-detection.tsx:198
AlertSaveFailed == "save-failed"         \* tree-detection.tsx:211
AlertModelFailed == "model-load-failed"  \* index.tsx:73
AlertDbFailed == "db-init-failed"        \* index.tsx:85
AlertTreeNotFound == "tree-not-found"            \* part_012:66
AlertLoadFailed == "tree-load-failed"            \* part_012:71
AlertTreeDeleteFailed == "tree-delete-failed"    \* part_012:95
AlertPhotoFailed == "photo-failed"               \* part_012:162, 205
AlertImageDeleteFailed == "image-delete-failed"  \* part_012:227
AlertDefectDeleteFailed == "defect-delete-failed"    \* part_012:257
AlertNoCrop == "no-crop-to-classify"             \* part_012:268
AlertGenDone == "analysis-done"                  \* part_012:344
AlertGenFailed == "analysis-failed"              \* part_012:349
AlertCleared == "all-trees-cleared"              \* part_005:32
AlertClearFailed == "clear-failed"               \* part_005:37

SaveAlertSet == {AlertNoSelection, AlertSaved, AlertSaveFailed}
IsSaveAlert(a) == a \in SaveAlertSet
\* the alerts raised by saveSelectedTrees, one per finished invocation
SaveAlerts == SelectSeq(alerts, IsSaveAlert)

-----------------------------------------------------------------------------
(* Initial states *)

imageUri == "file:///photo.jpg"

DecodeInit ==
    /\ yoloModel = Null
    /\ fetches = Absent
    /\ yoloResult = [status |-> "none", ranked |-> <<>>, trees |-> <<>>]

CropInit ==
    /\ cropIn = NoCrop
    /\ cropOut = NoCrop

PageInit ==
    /\ detectedTrees = <<>>
    /\ loading = TRUE
    /\ saving = FALSE
    /\ alerts = <<>>
    /\ detPc = "start"
    /\ savePc = "idle"
    /\ selectedTrees = <<>>
    /\ saveIdx = 0
    /\ cropPath = ""
    /\ currentDate = 0
    /\ cropCalls = <<>>
    /\ cropFailed = {}
    /\ insertFailed = FALSE
    /\ atPress = [list |-> <<>>, rows |-> 0, crops |-> 0]
    /\ clock = 0
    /\ modelPc = "start"
    /\ dbPc = "start"

DbInit ==
    /\ db = Null
    /\ initialized = FALSE
    /\ trees = <<>>
    /\ nextTreeId = 1

ScreenInit ==
    /\ PageInit
    /\ DbInit

PreInit ==
    /\ preIn = [present |-> FALSE]
    /\ preOut = [status |-> "none"]

Callers == {"initializeDatabase", "loadTrees", "insertTree"}

LayoutInit ==
    /\ boxIn = [present |-> FALSE]
    /\ boxOut = [status |-> "none"]
UpdateInit ==
    /\ updIn = [present |-> FALSE]
    /\ updOut = [status |-> "none"]
CallerInit ==
    /\ initPc = [c \in Callers |-> [at |-> "idle"]]
    /\ opened = 0
UnitInit ==
    /\ LayoutInit
    /\ UpdateInit
    /\ written = <<>>
    /\ CallerInit

DefectInit ==
    /\ defects = <<>>
    /\ nextDefectId = 1

GenInit ==
    /\ generatingDescription = FALSE
    /\ genPc = "idle"
    /\ genTree = NoTree
    /\ genTaxon = Null
    /\ detectionResponse = <<>>
    /\ detectedDefects = <<>>
    /\ defectRecords = <<>>
    /\ genIdx = 0
    /\ insertedDefects = <<>>
    /\ passes = 0

DetailScreenInit ==
    /\ detailPc = "start"
    /\ detailTree = NoTree
    /\ detailDefects = <<>>
    /\ GenInit
    /\ addPc = "idle"
    /\ addTree = NoTree
    /\ addUri = ""
    /\ addImages = <<>>
    /\ delPc = "idle"
    /\ delTree = NoTree
    /\ delImages = <<>>
    /\ shots = 0
    /\ added = {}
    /\ removed = {}

\* no detail screen is open; SQLite leaves foreign keys off unless the build
\* or a PRAGMA turns them on
DetailInit ==
    /\ DefectInit
    /\ foreignKeys = FALSE
    /\ detailId = 1
    /\ DetailScreenInit

-----------------------------------------------------------------------------
(* The decoder on its own: runYOLOInference over raw output tensors *)

\* corners <<x1, y1, x2, y2>> in network-input pixels: inside the input,
\* reaching out of it on the left and at the bottom, on the right and on top,
\* inverted, as wide as the input
Corners == {<<100, 100, 300, 300>>, <<-64, 100, 64, 704>>, <<600, -64, 704, 704>>,
            <<300, 100, 100, 300>>, <<0, -64, 640, 704>>}
Confidences == {50, 51, 90}
ClassIds == {0, 1}

Row(xy, c, k) == xy \o <<c, k>>
RowSet == {Row(xy, c, k) : xy \in Corners, c \in Confidences, k \in ClassIds}

RECURSIVE Flatten(_)
Flatten(rows) == IF rows = <<>> THEN <<>> ELSE Head(rows) \o Flatten(Tail(rows))

\* shapes of the output tensor: [1, N, 6], a tensor declaring one row more
\* than its data holds, and a tensor without a detection-count dimension
DimsFor(n) == {<<1, n, RowStride>>, <<1, n + 1, RowStride>>, <<1>>}

InitDecode ==
    /\ yoloModel = Session
    /\ \/ fetches = Absent
       \/ \E n \in 0..MaxRows : \E rows \in [1..n -> RowSet] : \E d \in DimsFor(n) :
            fetches = Tensor(d, Flatten(rows))
    /\ yoloResult = [status |-> "none", ranked |-> <<>>, trees |-> <<>>]
    /\ CropInit
    /\ ScreenInit
    /\ PreInit
    /\ UnitInit
    /\ DetailInit

\* runYOLOInference from the resolution of yoloModel.run to its return or throw
RunYOLOInference ==
    /\ yoloResult.status = "none"
    /\ yoloResult' = Decode(yoloModel, fetches)
    /\ UNCHANGED <<yoloModel, fetches, cropVars, screenVars, preVars, unitVars, detailVars>>

NextDecode == RunYOLOInference

SpecDecode == InitDecode /\ [][NextDecode]_vars

-----------------------------------------------------------------------------
(* The crop geometry on its own *)

\* normalized numbers: -0.1, 0, 1/3200, 0.1, 0.2, 0.5, 0.999, 1, 1.25
CropXs == {-320, 0, 1, 320, 640, 1600, 3197, 3200, 4000}
CropYs == {-320, 0, 320, 640, 1600, 3197}
ImageWidths == {2, 3, 100, 1000}
ImageHeights == {2, 100, 800}

InitCrop ==
    /\ DecodeInit
    /\ \E a \in CropXs, b \in CropYs, c \in CropXs, d \in CropYs,
          w \in ImageWidths, h \in ImageHeights :
         cropIn = [a |-> a, b |-> b, c |-> c, d |-> d,
                   imageWidth |-> w, imageHeight |-> h]
    /\ cropOut = NoCrop
    /\ ScreenInit
    /\ PreInit
    /\ UnitInit
    /\ DetailInit

\* cropTreeWithDimensions(imageUri, {x: a, y: b, width: c, height: d}, treeId)
CropTreeWithDimensions ==
    /\ cropOut.status = "none"
    /\ \E ok \in BOOLEAN :
         cropOut' = CropTreeOutcome(
                        [x |-> cropIn.a, y |-> cropIn.b,
                         width |-> cropIn.c, height |-> cropIn.d],
                        cropIn.imageWidth, cropIn.imageHeight, ok)
    /\ UNCHANGED <<decodeVars, cropIn, screenVars, preVars, unitVars, detailVars>>

\* cropDefect(imageUri, [a, b, c, d], treeId, defectType, defectIndex)
CropDefect ==
    /\ cropOut.status = "none"
    /\ \E ok \in BOOLEAN :
         cropOut' = CropDefectOutcome(<<cropIn.a, cropIn.b, cropIn.c, cropIn.d>>,
                                      cropIn.imageWidth, cropIn.imageHeight, ok)
    /\ UNCHANGED <<decodeVars, cropIn, screenVars, preVars, unitVars, detailVars>>

NextCrop == CropTreeWithDimensions \/ CropDefect

SpecCrop == InitCrop /\ [][NextCrop]_vars

-----------------------------------------------------------------------------
(* preprocessImage.ts, on its own.  The decoded image is a record of its     *)
(* width, its height and its RGBA samples, four per pixel, row by row.  An   *)
(* element of the output buffer is the exact quotient num/den.               *)

PreprocessSide == 2     \* the side the decoded image must have (640 in the source)

Ratio(n, d) == [num |-> n, den |-> d]
\* a fresh Float32Array(n)
ZeroArray(n) == [j \in 1..n |-> Ratio(0, 255)]

\* a loop body that writes the three samples of a pixel next to each other
RECURSIVE PackInterleaved(_, _, _, _)
PackInterleaved(rgba, pixelCount, i, out) ==
    IF i >= pixelCount THEN out
    ELSE PackInterleaved(rgba, pixelCount, i + 1,
             [out EXCEPT ![3 * i + 1] = Ratio(rgba[4 * i + 1], 255),
                         ![3 * i + 2] = Ratio(rgba[4 * i + 2], 255),
                         ![3 * i + 3] = Ratio(rgba[4 * i + 3], 255)])
\* for (let i = 0, p = 0; i < pixelCount; i++, p += 4): p is 4 * i, rPtr is i,
\* gPtr is pixelCount + i and bPtr is 2 * pixelCount + i (indices 0-based in
\* the source, 1-based here)
RECURSIVE Pack(_, _, _, _)
Pack(rgba, pixelCount, i, out) ==
    IF i >= pixelCount THEN out
    ELSE LET r == rgba[4 * i + 1]
             g == rgba[4 * i + 2]
             b == rgba[4 * i + 3]
         IN  Pack(rgba, pixelCount, i + 1,
                 [out EXCEPT ![i + 1] = Ratio(r, 255),
                             ![pixelCount + i + 1] = Ratio(g, 255),
                             ![2 * pixelCount + i + 1] = Ratio(b, 255)])

PreThrown == [status |-> "thrown"]
PreReturned(png) ==
    LET pixelCount == png.width * png.height
    IN  [status |-> "returned",
         data |-> Pack(png.data, pixelCount, 0, ZeroArray(3 * pixelCount)),
         dims |-> <<1, 3, PreprocessSide, PreprocessSide>>,
         width |-> png.width,
         height |-> png.height]

\* a preprocessImage without the check of the decoded size
PreprocessUnguarded(png, how) ==
    IF how = "manipulateRejects" THEN PreThrown
    ELSE IF ~png.present THEN PreThrown
    ELSE IF how = "decodeThrows" THEN PreThrown
    ELSE PreReturned(png)
\* preprocessImage(uri): how is "resolves", "manipulateRejects" (manipulateAsync
\* rejects) or "decodeThrows" (PNG.sync.read throws); png.present is whether
\* the resize returned base64 data
Preprocess(png, how) ==
    IF how = "manipulateRejects" THEN PreThrown
    ELSE IF ~png.present THEN PreThrown
    ELSE IF how = "decodeThrows" THEN PreThrown
    ELSE IF png.width # PreprocessSide \/ png.height # PreprocessSide THEN PreThrown
    ELSE PreReturned(png)

PreHows == {"resolves", "manipulateRejects", "decodeThrows"}

\* RGBA pixels; no alpha sample is also a colour sample
Pixels == {<<0, 128, 255, 77>>, <<255, 51, 1, 200>>}
\* sides of decoded images: the expected one, one less, one more
PreSides == (PreprocessSide - 1)..(PreprocessSide + 1)

InitPre ==
    /\ DecodeInit
    /\ CropInit
    /\ ScreenInit
    /\ DetailInit
    /\ UnitInit
    /\ \/ preIn = [present |-> FALSE]
       \/ \E w \in PreSides, h \in PreSides : \E px \in [1..(w * h) -> Pixels] :
            preIn = [present |-> TRUE, width |-> w, height |-> h,
                     data |-> Flatten(px)]
    /\ preOut = [status |-> "none"]

\* preprocessImage from its call to its return or throw
PreprocessImage ==
    /\ preOut.status = "none"
    /\ \E how \in PreHows : preOut' = Preprocess(preIn, how)
    /\ UNCHANGED <<decodeVars, cropVars, screenVars, preIn, unitVars, detailVars>>

NextPre == PreprocessImage

SpecPre == InitPre /\ [][NextPre]_vars

-----------------------------------------------------------------------------
(* The application: model and database start-up, the detection screen *)

\* raw outputs the model returns on the detection screen: two rows above the
\* threshold in ascending confidence, one row at the threshold, no tensor
ScreenOutputs ==
    {Tensor(<<1, 2, RowStride>>,
            <<600, -64, 704, 704, 51, 0>> \o <<100, 100, 300, 300, 90, 0>>),
     Tensor(<<1, 1, RowStride>>, <<100, 100, 300, 300, 50, 0>>),
     Absent}

\* <<width, height>> of the photo at imageUri
ScreenImageSizes == {<<1000, 800>>}

Init ==
    /\ DecodeInit
    /\ CropInit
    /\ ScreenInit
    /\ PreInit
    /\ UnitInit
    /\ DetailInit

\* index.tsx loadYOLOModel, from the call to its finally block
LoadYOLOModel ==
    /\ modelPc = "start"
    /\ modelPc' = "done"
    /\ \E ok \in BOOLEAN :
         IF ok THEN yoloModel' = Session /\ alerts' = alerts
         ELSE yoloModel' = yoloModel /\ alerts' = Append(alerts, AlertModelFailed)
    /\ UNCHANGED <<fetches, yoloResult, cropVars, preVars, unitVars, detailVars, detectedTrees, loading, saving,
                   detPc, saveVars, clock, dbPc, dbVars>>

\* index.tsx initializeDatabase: treeDatabase.init(), then loadTrees or the alert
InitializeDatabase ==
    /\ dbPc = "start"
    /\ dbPc' = "done"
    /\ \E how \in InitHows :
         LET o == InitOutcome(db, initialized, how)
         IN  /\ db' = o.db
             /\ initialized' = o.initialized
             /\ alerts' = IF o.thrown THEN Append(alerts, AlertDbFailed) ELSE alerts
    /\ UNCHANGED <<decodeVars, cropVars, preVars, unitVars, detailVars, detectedTrees, loading, saving, detPc,
                   saveVars, clock, modelPc, trees, nextTreeId>>

\* the wall clock advances
Tick ==
    /\ clock < MaxClock
    /\ clock' = clock + 1
    /\ UNCHANGED <<decodeVars, cropVars, preVars, unitVars, detailVars, detectedTrees, loading, saving, alerts,
                   detPc, saveVars, modelPc, dbPc, dbVars>>

\* runTreeDetection up to the await of preprocessImage
DetectStart ==
    /\ detPc = "start"
    /\ loading' = TRUE
    /\ detPc' = "preprocess"
    /\ UNCHANGED <<decodeVars, cropVars, preVars, unitVars, detailVars, detectedTrees, saving, alerts, saveVars,
                   clock, modelPc, dbPc, dbVars>>

\* preprocessImage settles; on success runTreeDetection goes on to the await
\* of runYOLOInference, on failure to its catch and finally blocks
PreprocessDone ==
    /\ detPc = "preprocess"
    /\ \E ok \in BOOLEAN :
         IF ok THEN /\ detPc' = "inference"
                    /\ UNCHANGED <<alerts, loading>>
         ELSE /\ detPc' = "done"
              /\ alerts' = Append(alerts, AlertDetectFailed)
              /\ loading' = FALSE
    /\ UNCHANGED <<decodeVars, cropVars, preVars, unitVars, detailVars, detectedTrees, saving, saveVars, clock,
                   modelPc, dbPc, dbVars>>

\* an end of the run whose catch block raises no alert
DetectFinishQuiet(result) ==
    /\ yoloResult' = result
    /\ IF result.status = "thrown"
       THEN /\ alerts' = alerts
            /\ detectedTrees' = detectedTrees
       ELSE /\ detectedTrees' = result.trees
            /\ alerts' = IF Len(result.trees) = 0
                         THEN Append(alerts, AlertNoTrees) ELSE alerts
    /\ loading' = FALSE
    /\ detPc' = "done"
\* an end of the run without the finally block
DetectFinishBusy(result) ==
    /\ yoloResult' = result
    /\ IF result.status = "thrown"
       THEN /\ alerts' = Append(alerts, AlertDetectFailed)
            /\ detectedTrees' = detectedTrees
       ELSE /\ detectedTrees' = result.trees
            /\ alerts' = IF Len(result.trees) = 0
                         THEN Append(alerts, AlertNoTrees) ELSE alerts
    /\ loading' = loading
    /\ detPc' = "done"
\* the rest of runTreeDetection once runYOLOInference has returned or thrown
DetectFinish(result) ==
    /\ yoloResult' = result
    /\ IF result.status = "thrown"
       THEN /\ alerts' = Append(alerts, AlertDetectFailed)
            /\ detectedTrees' = detectedTrees
       ELSE /\ detectedTrees' = result.trees
            /\ alerts' = IF Len(result.trees) = 0
                         THEN Append(alerts, AlertNoTrees) ELSE alerts
    /\ loading' = FALSE
    /\ detPc' = "done"

\* an inference that runs without looking at the model handle
InferenceDoneUnguarded ==
    /\ detPc = "inference"
    /\ \E f \in ScreenOutputs :
         /\ fetches' = f
         /\ DetectFinish(Decode(Session, f))
    /\ UNCHANGED <<yoloModel, cropVars, preVars, unitVars, detailVars, saving, saveVars, clock, modelPc, dbPc,
                   dbVars>>
\* runYOLOInference settles: the model is missing, yoloModel.run rejects (as
\* with a result that holds no output, the call throws), or it resolves with a
\* raw output that is decoded
InferenceDone ==
    /\ detPc = "inference"
    /\ \/ /\ yoloModel = Null
          /\ fetches' = fetches
          /\ DetectFinish(Decode(yoloModel, fetches))
       \/ /\ yoloModel # Null
          /\ fetches' = Absent
          /\ DetectFinish(Decode(yoloModel, Absent))
       \/ /\ yoloModel # Null
          /\ \E f \in ScreenOutputs :
               /\ fetches' = f
               /\ DetectFinish(Decode(yoloModel, f))
    /\ UNCHANGED <<yoloModel, cropVars, preVars, unitVars, detailVars, saving, saveVars, clock, modelPc, dbPc,
                   dbVars>>

HasId(tree, treeId) == tree.id = treeId
\* an updater that also moves the toggled detection to the head of the list
ToggledToFront(list, treeId) ==
    LET flipped == [k \in 1..Len(list) |->
                       IF list[k].id = treeId
                       THEN [list[k] EXCEPT !.selected = ~list[k].selected]
                       ELSE list[k]]
    IN  SelectSeq(flipped, LAMBDA t : HasId(t, treeId))
            \o SelectSeq(flipped, LAMBDA t : ~HasId(t, treeId))
\* prev.map(tree => tree.id === treeId ? {...tree, selected: !tree.selected} : tree)
Toggled(list, treeId) ==
    [k \in 1..Len(list) |->
        IF list[k].id = treeId
        THEN [list[k] EXCEPT !.selected = ~list[k].selected]
        ELSE list[k]]

\* a press on a row of the list, which is rendered once loading is false
ToggleTreeSelection ==
    /\ ~loading
    /\ \E k \in 1..Len(detectedTrees) :
         detectedTrees' = Toggled(detectedTrees, detectedTrees[k].id)
    /\ UNCHANGED <<decodeVars, cropVars, preVars, unitVars, detailVars, loading, saving, alerts, detPc, saveVars,
                   clock, modelPc, dbPc, dbVars>>

\* a filter that lets every detection through
IsDetected(tree) == TRUE
IsSelected(tree) == tree.selected

\* a start of the save that skips the check for an empty selection
SaveBeginUnchecked ==
    /\ ~loading
    /\ savePc = "idle"
    /\ Len(SaveAlerts) < MaxSaves
    /\ selectedTrees' = SelectSeq(detectedTrees, IsSelected)
    /\ cropFailed' = {}
    /\ insertFailed' = FALSE
    /\ cropPath' = cropPath
    /\ atPress' = [list |-> detectedTrees, rows |-> Len(trees),
                   crops |-> Len(cropCalls)]
    /\ IF selectedTrees' = <<>>
       THEN /\ alerts' = Append(alerts, AlertSaved)
            /\ saving' = FALSE
            /\ savePc' = "alert"
            /\ currentDate' = clock
            /\ saveIdx' = saveIdx
       ELSE /\ alerts' = alerts
            /\ saving' = TRUE
            /\ savePc' = "crop"
            /\ currentDate' = clock
            /\ saveIdx' = 1
    /\ UNCHANGED <<decodeVars, cropVars, preVars, unitVars, detailVars, detectedTrees, loading, detPc, cropCalls,
                   clock, modelPc, dbPc, dbVars>>
\* saveSelectedTrees from the press to the first await: the selection is
\* filtered, an empty one is refused with an alert and the function returns
\* through its finally block
SavePress(presses) ==
    /\ ~loading
    /\ savePc = "idle"
    /\ Len(SaveAlerts) < presses
    /\ selectedTrees' = SelectSeq(detectedTrees, IsSelected)
    /\ cropFailed' = {}
    /\ insertFailed' = FALSE
    /\ cropPath' = cropPath
    /\ atPress' = [list |-> detectedTrees, rows |-> Len(trees),
                   crops |-> Len(cropCalls)]
    /\ IF selectedTrees' = <<>>
       THEN /\ alerts' = Append(alerts, AlertNoSelection)
            /\ saving' = FALSE
            /\ savePc' = "alert"
            /\ UNCHANGED <<currentDate, saveIdx>>
       ELSE /\ alerts' = alerts
            /\ saving' = TRUE
            /\ savePc' = "crop"
            /\ currentDate' = clock
            /\ saveIdx' = 1
    /\ UNCHANGED <<decodeVars, cropVars, preVars, unitVars, detailVars, detectedTrees, loading, detPc, cropCalls,
                   clock, modelPc, dbPc, dbVars>>

SaveBegin == SavePress(MaxSaves)
\* a press of the save button on a screen that may already have shown the
\* alert of an earlier save
SaveBeginAgain == SavePress(MaxPresses)

\* the path cropTreeWithDimensions returns: tree_crop_ and the fresh file name
\* the image manipulator gave its n-th result
CropPathOf(n) == "tree_crop_" \o ToString(n)

\* a crop step whose failure is not caught but reaches the outer catch
SaveCropAborting ==
    /\ savePc = "crop"
    /\ LET tree == selectedTrees[saveIdx]
       IN  \E ok \in BOOLEAN, size \in ScreenImageSizes :
             /\ cropCalls' = Append(cropCalls, tree.id)
             /\ IF CropTreeOutcome(
                       [x |-> tree.x, y |-> tree.y,
                        width |-> tree.width, height |-> tree.height],
                       size[1], size[2], ok).status = "cropped"
                THEN /\ cropPath' = CropPathOf(Len(cropCalls) + 1)
                     /\ cropFailed' = cropFailed
                     /\ savePc' = "insert"
                     /\ UNCHANGED <<alerts, saving>>
                ELSE /\ cropPath' = ""
                     /\ cropFailed' = cropFailed \cup {saveIdx}
                     /\ savePc' = "alert"
                     /\ alerts' = Append(alerts, AlertSaveFailed)
                     /\ saving' = FALSE
    /\ UNCHANGED <<decodeVars, cropVars, preVars, unitVars, detailVars, detectedTrees, loading, detPc,
                   selectedTrees, saveIdx, currentDate, insertFailed, atPress,
                   clock, modelPc, dbPc, dbVars>>
\* a loop that starts the crops of all remaining selected trees at once
SaveCropAll ==
    /\ savePc = "crop"
    /\ \E ok \in BOOLEAN :
         /\ cropCalls' = cropCalls \o
                [k \in 1..(Len(selectedTrees) - saveIdx + 1) |->
                    selectedTrees[saveIdx + k - 1].id]
         /\ IF ok THEN /\ cropPath' = CropPathOf(Len(cropCalls) + 1)
                       /\ cropFailed' = cropFailed
            ELSE /\ cropPath' = ""
                 /\ cropFailed' = cropFailed \cup {saveIdx}
    /\ savePc' = "insert"
    /\ UNCHANGED <<decodeVars, cropVars, preVars, unitVars, detailVars, detectedTrees,
                   loading, saving, alerts, detPc, selectedTrees, saveIdx,
                   currentDate, insertFailed, atPress, clock, modelPc, dbPc,
                   dbVars>>
\* one iteration of the loop up to the await of insertTree: cropPath = '',
\* then the crop of selectedTrees[saveIdx], whose failure is caught and logged
SaveCrop ==
    /\ savePc = "crop"
    /\ LET tree == selectedTrees[saveIdx]
       IN  \E ok \in BOOLEAN, size \in ScreenImageSizes :
             /\ cropCalls' = Append(cropCalls, tree.id)
             /\ IF CropTreeOutcome(
                       [x |-> tree.x, y |-> tree.y,
                        width |-> tree.width, height |-> tree.height],
                       size[1], size[2], ok).status = "cropped"
                THEN /\ cropPath' = CropPathOf(Len(cropCalls) + 1)
                     /\ cropFailed' = cropFailed
                ELSE /\ cropPath' = ""
                     /\ cropFailed' = cropFailed \cup {saveIdx}
    /\ savePc' = "insert"
    /\ UNCHANGED <<decodeVars, cropVars, preVars, unitVars, detailVars, detectedTrees, loading, saving, alerts,
                   detPc, selectedTrees, saveIdx, currentDate, insertFailed,
                   atPress, clock, modelPc, dbPc, dbVars>>

\* const treeRecord = {...}
TreeRecordOf(tree, date, path) ==
    [imageUri |-> imageUri,
     boundingBox |-> [x |-> tree.x, y |-> tree.y,
                      width |-> tree.width, height |-> tree.height],
     dateTaken |-> date,
     description |-> "",
     additionalImages |-> <<>>,
     cropPath |-> path]

\* insertTree settles: on success the loop goes on to the next selected tree
\* or, after the last one, to the success alert; on failure to the outer catch;
\* the finally block ends both
SaveInsert ==
    /\ savePc = "insert"
    /\ \E how \in InitHows, runOk \in BOOLEAN :
         LET o == InsertTreeOutcome(db, initialized, trees, nextTreeId,
                     TreeRecordOf(selectedTrees[saveIdx], currentDate, cropPath),
                     how, runOk)
         IN  /\ db' = o.db
             /\ initialized' = o.initialized
             /\ trees' = o.trees
             /\ nextTreeId' = o.nextTreeId
             /\ IF o.thrown
                THEN /\ insertFailed' = TRUE
                     /\ alerts' = Append(alerts, AlertSaveFailed)
                     /\ saving' = FALSE
                     /\ savePc' = "alert"
                     /\ saveIdx' = saveIdx
                ELSE IF saveIdx < Len(selectedTrees)
                THEN /\ saveIdx' = saveIdx + 1
                     /\ savePc' = "crop"
                     /\ UNCHANGED <<insertFailed, alerts, saving>>
                ELSE /\ alerts' = Append(alerts, AlertSaved)
                     /\ saving' = FALSE
                     /\ savePc' = "alert"
                     /\ UNCHANGED <<insertFailed, saveIdx>>
    /\ UNCHANGED <<decodeVars, cropVars, preVars, unitVars, detailVars, detectedTrees, loading, detPc,
                   selectedTrees, cropPath, currentDate, cropCalls, cropFailed,
                   atPress, clock, modelPc, dbPc>>

\* the user dismisses the alert that ended the save
SaveDismiss ==
    /\ savePc = "alert"
    /\ savePc' = "idle"
    /\ UNCHANGED <<decodeVars, cropVars, preVars, unitVars, detailVars, detectedTrees, loading, saving, alerts,
                   detPc, selectedTrees, saveIdx, cropPath, currentDate, cropCalls,
                   cropFailed, insertFailed, atPress, clock, modelPc, dbPc,
                   dbVars>>

Next ==
    \/ LoadYOLOModel
    \/ InitializeDatabase
    \/ Tick
    \/ DetectStart
    \/ PreprocessDone
    \/ InferenceDone
    \/ ToggleTreeSelection
    \/ SaveBegin
    \/ SaveCrop
    \/ SaveInsert
    \/ SaveDismiss

Spec == Init /\ [][Next]_vars

\* the screen when every awaited call settles: preprocessImage,
\* runYOLOInference, cropTreeWithDimensions and insertTree resolve or reject
SpecLive ==
    /\ Spec
    /\ WF_vars(PreprocessDone)
    /\ WF_vars(InferenceDone)
    /\ WF_vars(SaveCrop)
    /\ WF_vars(SaveInsert)

\* the same screen, on which the save button is pressed again after the alert
\* of a save was dismissed
NextResave ==
    \/ LoadYOLOModel
    \/ InitializeDatabase
    \/ Tick
    \/ DetectStart
    \/ PreprocessDone
    \/ InferenceDone
    \/ ToggleTreeSelection
    \/ SaveBeginAgain
    \/ SaveCrop
    \/ SaveInsert
    \/ SaveDismiss

SpecResave == Init /\ [][NextResave]_vars

-----------------------------------------------------------------------------
(* The tree detail screen over the database: loadTreeData, add-photo,       *)
(* deleteImage, deleteDefect, generateDescription, deleteTree, and the      *)
(* clearDatabase of the settings tab.  One analysis, one add-photo and one  *)
(* deleteImage run at a time; each goes on after the screen is left.        *)

\* what no step of the detail screen changes
outsideDetail == <<decodeVars, cropVars, preVars, unitVars, detectedTrees, loading, saving,
                   detPc, saveVars, clock, modelPc, dbPc, db, initialized,
                   nextTreeId, foreignKeys, detailId>>

\* additional_${Date.now()}.jpg in the document directory, and the URI of the
\* picked asset; the n-th pick has its own time and its own asset
CopiedUri(n) == "additional_" \o ToString(n) \o ".jpg"
AssetUri(n) == "asset_" \o ToString(n) \o ".jpg"

\* the detections of a photo, saved as trees 1 and 2; the crop of the second failed
SavedDetections ==
    Decode(Session, Tensor(<<1, 2, RowStride>>,
               <<600, -64, 704, 704, 51, 0>> \o <<100, 100, 300, 300, 90, 0>>)).trees
SavedTrees ==
    <<TreeRow(1, TreeRecordOf(SavedDetections[1], 0, CropPathOf(1))),
      TreeRow(2, TreeRecordOf(SavedDetections[2], 0, ""))>>

\* answers of the defect detection API: box corners are normalized
ApiResult(key, label, confidence, box) ==
    [key |-> key, label |-> label, confidence |-> confidence,
     x1 |-> box[1], y1 |-> box[2], x2 |-> box[3], y2 |-> box[4]]

\* the record of the one defect an earlier analysis of tree 1 found
EarlierRecords ==
    ProcessDefectsForTree(1, CropPathOf(1), <<>>,
        <<ApiResult(TreeCropKey, "crack", 60, <<0, 0, 640, 640>>)>>,
        "resolves", 0).records
\* the tables after an earlier visit of tree 1, on which that analysis ran and
\* then a photo was added
VisitedTrees ==
    UpdateTree(
        UpdateTree(SavedTrees, 1,
            [description |-> GeneratedDescription(EarlierRecords),
             taxonName |-> "Quercus robur"]),
        1, [additionalImages |-> <<CopiedUri(0)>>])
VisitedDefects == <<DefectRow(1, EarlierRecords[1])>>

DetectionResponses ==
    {<<>>,
     <<ApiResult(TreeCropKey, "rot", 25, <<0, 0, 1600, 1600>>),
       ApiResult(TreeCropKey, "crack", 26, <<320, 640, 1600, 2240>>)>>,
     <<ApiResult(AdditionalKey(0), "rot", 90, <<1600, 320, 3200, 960>>),
       ApiResult(TreeCropKey, "crack", 80, <<320, 640, 1600, 2240>>)>>,
     <<ApiResult("photo_7", "rot", 90, <<1600, 320, 3200, 960>>),
       ApiResult(TreeCropKey, "crack", 24, <<320, 640, 1600, 2240>>),
       ApiResult(AdditionalKey(0), "crack", 80, <<320, 640, 1600, 2240>>)>>}

\* answers of the classification API: it fails, names a taxon or names none
ClassifyOutcomes ==
    {[ok |-> FALSE, label |-> ""], [ok |-> TRUE, label |-> "Quercus robur"],
     [ok |-> TRUE, label |-> ""]}

Range(seq) == {seq[k] : k \in 1..Len(seq)}

InitDetail ==
    /\ DecodeInit
    /\ CropInit
    /\ PreInit
    /\ UnitInit
    /\ PageInit
    /\ db = Connection
    /\ initialized = TRUE
    /\ trees = VisitedTrees
    /\ nextTreeId = 3
    /\ defects = VisitedDefects
    /\ nextDefectId = 2
    /\ foreignKeys \in BOOLEAN
    /\ detailId \in {1, 2}
    /\ detailPc = "start"
    /\ detailTree = NoTree
    /\ detailDefects = <<>>
    /\ GenInit
    /\ addPc = "idle"
    /\ addTree = NoTree
    /\ addUri = ""
    /\ addImages = <<>>
    /\ delPc = "idle"
    /\ delTree = NoTree
    /\ delImages = <<>>
    /\ shots = 0
    /\ added = Range(GetTreeById(VisitedTrees, detailId).additionalImages)
    /\ removed = {}

\* loadTreeData, run by the effect on mount
LoadTreeData ==
    /\ detailPc = "start"
    /\ \E ok \in BOOLEAN :
         LET treeData == GetTreeById(trees, detailId)
         IN  IF ~ok
             THEN /\ alerts' = Append(alerts, AlertLoadFailed)
                  /\ detailPc' = "left"
                  /\ UNCHANGED <<detailTree, detailDefects>>
             ELSE IF ~treeData.present
             THEN /\ alerts' = Append(alerts, AlertTreeNotFound)
                  /\ detailPc' = "left"
                  /\ UNCHANGED <<detailTree, detailDefects>>
             ELSE /\ detailTree' = treeData
                  /\ detailDefects' = GetDefectsByTreeId(defects, detailId)
                  /\ detailPc' = "shown"
                  /\ alerts' = alerts
    /\ UNCHANGED <<outsideDetail, trees, defects, nextDefectId, genVars, addVars,
                   delVars, added, removed>>

\* generateDescription from the press to the await of classifyTreeImage; the
\* button is disabled while generatingDescription is set
GenerateDescription ==
    /\ detailPc = "shown"
    /\ ~generatingDescription
    /\ genPc = "idle"
    /\ passes < MaxPasses
    /\ passes' = passes + 1
    /\ IF ~detailTree.present \/ detailTree.cropPath = ""
       THEN /\ alerts' = Append(alerts, AlertNoCrop)
            /\ UNCHANGED <<generatingDescription, genPc, genTree>>
       ELSE /\ generatingDescription' = TRUE
            /\ genTree' = detailTree
            /\ genPc' = "classify"
            /\ alerts' = alerts
    /\ UNCHANGED <<outsideDetail, trees, defects, nextDefectId, detailPc, detailTree,
                   detailDefects, genTaxon, detectionResponse, detectedDefects,
                   defectRecords, genIdx, insertedDefects, addVars, delVars,
                   added, removed>>

\* generateDescription returns and its locals are gone
GenReturn ==
    /\ generatingDescription' = FALSE
    /\ genPc' = "idle"
    /\ genTree' = NoTree
    /\ genTaxon' = Null
    /\ detectionResponse' = <<>>
    /\ detectedDefects' = <<>>
    /\ defectRecords' = <<>>
    /\ genIdx' = 0
    /\ insertedDefects' = <<>>
\* the catch and finally blocks of generateDescription
GenFail ==
    /\ alerts' = Append(alerts, AlertGenFailed)
    /\ GenReturn

\* classifyTreeImage settles; on success deleteDefectsByTreeId is called
GenClassified ==
    /\ genPc = "classify"
    /\ \E o \in ClassifyOutcomes :
         IF ~o.ok THEN GenFail
         ELSE /\ genTaxon' = IF o.label = "" THEN Null ELSE o.label
              /\ genPc' = "delete"
              /\ UNCHANGED <<alerts, generatingDescription, genTree,
                             detectionResponse, detectedDefects, defectRecords,
                             genIdx, insertedDefects>>
    /\ UNCHANGED <<outsideDetail, trees, defects, nextDefectId, detailPc, detailTree,
                   detailDefects, passes, addVars, delVars, added, removed>>

\* deleteDefectsByTreeId settles; on success the local list is cleared and
\* processDefectsForTree is called
GenDeleted ==
    /\ genPc = "delete"
    /\ \E ok \in BOOLEAN :
         IF ~ok THEN GenFail /\ UNCHANGED <<defects, detailDefects>>
         ELSE /\ defects' = DeleteDefectsByTreeId(defects, genTree.id)
              /\ detailDefects' = <<>>
              /\ genPc' = "process"
              /\ UNCHANGED <<alerts, generatingDescription, genTree, genTaxon,
                             detectionResponse, detectedDefects, defectRecords,
                             genIdx, insertedDefects>>
    /\ UNCHANGED <<outsideDetail, trees, nextDefectId, detailPc, detailTree, passes,
                   addVars, delVars, added, removed>>

\* processDefectsForTree settles; on success the first insertDefect is called
\* or, without records, updateTree
GenProcessed ==
    /\ genPc = "process"
    /\ \E results \in DetectionResponses, how \in ProcessHows :
         LET o == ProcessDefectsForTree(genTree.id, genTree.cropPath,
                      genTree.additionalImages, results, how, clock)
         IN  IF o.status = "thrown" THEN GenFail
             ELSE /\ detectionResponse' = results
                  /\ detectedDefects' = o.detected
                  /\ defectRecords' = o.records
                  /\ insertedDefects' = <<>>
                  /\ genIdx' = IF o.records = <<>> THEN 0 ELSE 1
                  /\ genPc' = IF o.records = <<>> THEN "update" ELSE "insert"
                  /\ UNCHANGED <<alerts, generatingDescription, genTree, genTaxon>>
    /\ UNCHANGED <<outsideDetail, trees, defects, nextDefectId, detailPc, detailTree,
                   detailDefects, passes, addVars, delVars, added, removed>>

\* insertDefect settles: the statement fails when runAsync rejects and, on a
\* connection that enforces foreign keys, when the tree is gone
GenInserted ==
    /\ genPc = "insert"
    /\ \E runOk \in BOOLEAN :
         LET defectRecord == defectRecords[genIdx]
             ok == runOk /\ (foreignKeys => HasTree(trees, defectRecord.tree_id))
         IN  IF ~ok THEN GenFail /\ UNCHANGED <<defects, nextDefectId>>
             ELSE /\ defects' = Append(defects, DefectRow(nextDefectId, defectRecord))
                  /\ nextDefectId' = nextDefectId + 1
                  /\ insertedDefects' =
                         Append(insertedDefects, DefectRow(nextDefectId, defectRecord))
                  /\ IF genIdx < Len(defectRecords)
                     THEN genIdx' = genIdx + 1 /\ genPc' = "insert"
                     ELSE genIdx' = genIdx /\ genPc' = "update"
                  /\ UNCHANGED <<alerts, generatingDescription, genTree, genTaxon,
                                 detectionResponse, detectedDefects, defectRecords>>
    /\ UNCHANGED <<outsideDetail, trees, detailPc, detailTree, detailDefects, passes,
                   addVars, delVars, added, removed>>

\* updateTree settles; on success the local tree, rebuilt from the tree the
\* function closed over, and the local defect list are set
GenUpdated ==
    /\ genPc = "update"
    /\ \E ok \in BOOLEAN :
         LET generatedDescription == GeneratedDescription(defectRecords)
             updates == IF genTaxon = Null
                        THEN [description |-> generatedDescription]
                        ELSE [description |-> generatedDescription,
                              taxonName |-> genTaxon]
         IN  IF ~ok THEN GenFail /\ UNCHANGED <<trees, detailTree, detailDefects>>
             ELSE /\ trees' = UpdateTree(trees, genTree.id, updates)
                  /\ detailTree' = [genTree EXCEPT
                                       !.description = generatedDescription,
                                       !.taxonName = genTaxon]
                  /\ detailDefects' = insertedDefects
                  /\ alerts' = Append(alerts, AlertGenDone)
                  /\ GenReturn
    /\ UNCHANGED <<outsideDetail, defects, nextDefectId, detailPc, passes, addVars,
                   delVars, added, removed>>

\* takePhoto / selectFromGallery up to the await of copyAsync, for a pick that
\* is granted and not canceled (a denied or canceled pick changes nothing)
AddPhotoStart ==
    /\ detailPc = "shown"
    /\ addPc = "idle"
    /\ shots < MaxPhotos
    /\ detailTree.present
    /\ shots' = shots + 1
    /\ addTree' = detailTree
    /\ addPc' = "copy"
    /\ UNCHANGED <<outsideDetail, alerts, trees, defectVars, detailPc, detailTree,
                   detailDefects, genVars, addUri, addImages, delVars, added,
                   removed>>

\* copyAsync settles: newImages is built from the tree the function closed
\* over and updateTree is called, in the try block or in its catch block
AddPhotoCopied ==
    /\ addPc = "copy"
    /\ \E copied \in BOOLEAN :
         LET uri == IF copied THEN CopiedUri(shots) ELSE AssetUri(shots)
         IN  /\ addUri' = uri
             /\ addImages' = Append(addTree.additionalImages, uri)
             /\ addPc' = IF copied THEN "update" ELSE "fallback"
    /\ UNCHANGED <<outsideDetail, alerts, trees, defectVars, detailPc, detailTree,
                   detailDefects, genVars, addTree, shots, delVars, added, removed>>

\* takePhoto returns and its locals are gone
AddReturn ==
    /\ addPc' = "idle"
    /\ addTree' = NoTree
    /\ addUri' = ""
    /\ addImages' = <<>>

\* updateTree settles: on success the local tree is set; a failure in the try
\* block is caught like a failed copy and the write is retried with the URI of
\* the asset; a failure in the catch block reaches the outer catch
AddPhotoUpdated ==
    /\ addPc \in {"update", "fallback"}
    /\ \E ok \in BOOLEAN :
         IF ok
         THEN /\ trees' = UpdateTree(trees, addTree.id,
                              [additionalImages |-> addImages])
              /\ detailTree' = [addTree EXCEPT !.additionalImages = addImages]
              /\ added' = added \cup {addUri}
              /\ alerts' = alerts
              /\ AddReturn
         ELSE IF addPc = "update"
         THEN /\ addUri' = AssetUri(shots)
              /\ addImages' = Append(addTree.additionalImages, AssetUri(shots))
              /\ addPc' = "fallback"
              /\ UNCHANGED <<trees, detailTree, added, alerts, addTree>>
         ELSE /\ alerts' = Append(alerts, AlertPhotoFailed)
              /\ AddReturn
              /\ UNCHANGED <<trees, detailTree, added>>
    /\ UNCHANGED <<outsideDetail, defectVars, detailPc, detailDefects, genVars,
                   shots, delVars, removed>>


\* deleteImage(imageUri) confirmed in its alert: newImages is filtered from the
\* tree the function closed over and updateTree is called
DeleteImageConfirmed ==
    /\ detailPc = "shown"
    /\ delPc = "idle"
    /\ detailTree.present
    /\ \E item \in Range(detailTree.additionalImages) :
         /\ delImages' = SelectSeq(detailTree.additionalImages,
                                   LAMBDA uri : uri # item)
         /\ removed' = removed \cup {item}
    /\ delTree' = detailTree
    /\ delPc' = "update"
    /\ UNCHANGED <<outsideDetail, alerts, trees, defectVars, detailPc, detailTree,
                   detailDefects, genVars, addVars, added>>

\* updateTree settles for deleteImage
DeleteImageUpdated ==
    /\ delPc = "update"
    /\ \E ok \in BOOLEAN :
         IF ok
         THEN /\ trees' = UpdateTree(trees, delTree.id,
                              [additionalImages |-> delImages])
              /\ detailTree' = [delTree EXCEPT !.additionalImages = delImages]
              /\ alerts' = alerts
         ELSE /\ Len(alerts) < MaxAlerts
              /\ alerts' = Append(alerts, AlertImageDeleteFailed)
              /\ UNCHANGED <<trees, detailTree>>
    /\ delPc' = "idle"
    /\ delTree' = NoTree
    /\ delImages' = <<>>
    /\ UNCHANGED <<outsideDetail, defectVars, detailPc, detailDefects, genVars,
                   addVars, added, removed>>

\* deleteDefect(defectId) confirmed in its alert, to its end
DeleteDefectConfirmed ==
    /\ detailPc = "shown"
    /\ \E k \in 1..Len(detailDefects), ok \in BOOLEAN :
         LET defectId == detailDefects[k].defect_id
         IN  IF ok
             THEN /\ defects' = DeleteDefectRow(defects, defectId)
                  /\ detailDefects' = DeleteDefectRow(detailDefects, defectId)
                  /\ alerts' = alerts
             ELSE /\ Len(alerts) < MaxAlerts
                  /\ alerts' = Append(alerts, AlertDefectDeleteFailed)
                  /\ UNCHANGED <<defects, detailDefects>>
    /\ UNCHANGED <<outsideDetail, trees, nextDefectId, detailPc, detailTree, genVars,
                   addVars, delVars, added, removed>>

\* deleteTree confirmed in its alert: DELETE FROM trees WHERE id = ?, then
\* router.push('/')
DeleteTreeConfirmed ==
    /\ detailPc = "shown"
    /\ detailTree.present
    /\ \E ok \in BOOLEAN :
         IF ok
         THEN /\ trees' = DeleteTreeRows(trees, detailTree.id)
              /\ defects' = Cascade(foreignKeys, defects, trees')
              /\ detailPc' = "left"
              /\ alerts' = alerts
         ELSE /\ Len(alerts) < MaxAlerts
              /\ alerts' = Append(alerts, AlertTreeDeleteFailed)
              /\ UNCHANGED <<trees, defects, detailPc>>
    /\ UNCHANGED <<outsideDetail, nextDefectId, detailTree, detailDefects, genVars,
                   addVars, delVars, added, removed>>

\* router.back()
LeaveDetail ==
    /\ detailPc = "shown"
    /\ detailPc' = "left"
    /\ UNCHANGED <<outsideDetail, alerts, trees, defectVars, detailTree,
                   detailDefects, genVars, addVars, delVars, added, removed>>

\* clearDatabase of the settings tab, confirmed in its alert: DELETE FROM trees
ClearDatabase ==
    /\ detailPc = "left"
    /\ trees # <<>>
    /\ \E ok \in BOOLEAN :
         IF ok
         THEN /\ trees' = <<>>
              /\ defects' = Cascade(foreignKeys, defects, trees')
              /\ alerts' = Append(alerts, AlertCleared)
         ELSE /\ Len(alerts) < MaxAlerts
              /\ alerts' = Append(alerts, AlertClearFailed)
              /\ UNCHANGED <<trees, defects>>
    /\ UNCHANGED <<outsideDetail, nextDefectId, detailPc, detailTree, detailDefects,
                   genVars, addVars, delVars, added, removed>>

\* the analysis of a tree next to the deletion of defects and trees
NextDefects ==
    \/ LoadTreeData
    \/ GenerateDescription
    \/ GenClassified
    \/ GenDeleted
    \/ GenProcessed
    \/ GenInserted
    \/ GenUpdated
    \/ DeleteDefectConfirmed
    \/ DeleteTreeConfirmed
    \/ LeaveDetail
    \/ ClearDatabase

SpecDefects == InitDetail /\ [][NextDefects]_vars

\* the analysis of a tree next to the addition and deletion of its photos
NextPhotos ==
    \/ LoadTreeData
    \/ GenerateDescription
    \/ GenClassified
    \/ GenDeleted
    \/ GenProcessed
    \/ GenInserted
    \/ GenUpdated
    \/ AddPhotoStart
    \/ AddPhotoCopied
    \/ AddPhotoUpdated
    \/ DeleteImageConfirmed
    \/ DeleteImageUpdated

SpecPhotos == InitDetail /\ [][NextPhotos]_vars

-----------------------------------------------------------------------------
(* The boxes drawn over the photo: renderBoundingBoxes of the detection     *)
(* screen and renderBoundingBox of the detail screen.  Numbers are exact    *)
(* quotients [num, den] with den > 0.                                       *)

RECURSIVE Gcd(_, _)
Gcd(a, b) == IF b = 0 THEN a ELSE Gcd(b, a % b)
\* n/d in lowest terms
Lowest(n, d) ==
    LET g == Gcd(IF n < 0 THEN -n ELSE n, d)
    IN  Ratio(n \div g, d \div g)
Whole(n) == Ratio(n, 1)
QEq(a, b) == a.num * b.den = b.num * a.den
QLe(a, b) == a.num * b.den <= b.num * a.den
QLt(a, b) == a.num * b.den < b.num * a.den
QAdd(a, b) == Lowest(a.num * b.den + b.num * a.den, a.den * b.den)
QSub(a, b) == Lowest(a.num * b.den - b.num * a.den, a.den * b.den)
QMul(a, b) == Lowest(a.num * b.num, a.den * b.den)
\* a / b for b > 0
QDiv(a, b) == Lowest(a.num * b.den, a.den * b.num)
\* a normalized fixed-point coordinate as a quotient
Norm(r) == Lowest(r, Den)

NoBoxes == [status |-> "null"]

\* a layout that fits the image by height when it is wider than the container
RenderBoundingBoxesCover(container, actualImageSize, tree) ==
    IF container.width = 0 \/ container.height = 0
          \/ actualImageSize.width = 0 \/ actualImageSize.height = 0
    THEN NoBoxes
    ELSE LET containerWidth == Whole(container.width)
             containerHeight == Whole(container.height)
             imageAspectRatio ==
                 QDiv(Whole(actualImageSize.width), Whole(actualImageSize.height))
             containerAspectRatio == QDiv(containerWidth, containerHeight)
             wider == QLt(imageAspectRatio, containerAspectRatio)
             displayedImageWidth ==
                 IF wider THEN containerWidth
                 ELSE QMul(containerHeight, imageAspectRatio)
             displayedImageHeight ==
                 IF wider THEN QDiv(containerWidth, imageAspectRatio)
                 ELSE containerHeight
             offsetX == IF wider THEN Whole(0)
                        ELSE QDiv(QSub(containerWidth, displayedImageWidth), Whole(2))
             offsetY == IF wider
                        THEN QDiv(QSub(containerHeight, displayedImageHeight), Whole(2))
                        ELSE Whole(0)
         IN  [status |-> "drawn",
              displayedImageWidth |-> displayedImageWidth,
              displayedImageHeight |-> displayedImageHeight,
              offsetX |-> offsetX,
              offsetY |-> offsetY,
              x |-> QAdd(QMul(Norm(tree.x), displayedImageWidth), offsetX),
              y |-> QAdd(QMul(Norm(tree.y), displayedImageHeight), offsetY),
              width |-> QMul(Norm(tree.width), displayedImageWidth),
              height |-> QMul(Norm(tree.height), displayedImageHeight)]
\* tree-detection.tsx renderBoundingBoxes, for one tree of detectedTrees:
\* container is the state imageSize (the laid-out container), actualImageSize
\* the size of the photo
RenderBoundingBoxes(container, actualImageSize, tree) ==
    IF container.width = 0 \/ container.height = 0
          \/ actualImageSize.width = 0 \/ actualImageSize.height = 0
    THEN NoBoxes
    ELSE LET containerWidth == Whole(container.width)
             containerHeight == Whole(container.height)
             imageAspectRatio ==
                 QDiv(Whole(actualImageSize.width), Whole(actualImageSize.height))
             containerAspectRatio == QDiv(containerWidth, containerHeight)
             wider == QLt(containerAspectRatio, imageAspectRatio)
             displayedImageWidth ==
                 IF wider THEN containerWidth
                 ELSE QMul(containerHeight, imageAspectRatio)
             displayedImageHeight ==
                 IF wider THEN QDiv(containerWidth, imageAspectRatio)
                 ELSE containerHeight
             offsetX == IF wider THEN Whole(0)
                        ELSE QDiv(QSub(containerWidth, displayedImageWidth), Whole(2))
             offsetY == IF wider
                        THEN QDiv(QSub(containerHeight, displayedImageHeight), Whole(2))
                        ELSE Whole(0)
         IN  [status |-> "drawn",
              displayedImageWidth |-> displayedImageWidth,
              displayedImageHeight |-> displayedImageHeight,
              offsetX |-> offsetX,
              offsetY |-> offsetY,
              x |-> QAdd(QMul(Norm(tree.x), displayedImageWidth), offsetX),
              y |-> QAdd(QMul(Norm(tree.y), displayedImageHeight), offsetY),
              width |-> QMul(Norm(tree.width), displayedImageWidth),
              height |-> QMul(Norm(tree.height), displayedImageHeight)]

\* the detail screen's renderBoundingBox, for its tree
RenderBoundingBox(container, actualImageSize, tree) ==
    IF ~tree.present \/ container.width = 0 \/ container.height = 0
          \/ actualImageSize.width = 0 \/ actualImageSize.height = 0
    THEN NoBoxes
    ELSE LET containerWidth == Whole(container.width)
             containerHeight == Whole(container.height)
             originalImageWidth == Whole(actualImageSize.width)
             originalImageHeight == Whole(actualImageSize.height)
             imageAspectRatio == QDiv(originalImageWidth, originalImageHeight)
             containerAspectRatio == QDiv(containerWidth, containerHeight)
             displayed ==
                 IF QLt(containerAspectRatio, imageAspectRatio)
                 THEN LET h == QDiv(containerWidth, imageAspectRatio)
                      IN  [width |-> containerWidth, height |-> h,
                           offsetX |-> Whole(0),
                           offsetY |-> QDiv(QSub(containerHeight, h), Whole(2))]
                 ELSE LET w == QMul(containerHeight, imageAspectRatio)
                      IN  [width |-> w, height |-> containerHeight,
                           offsetX |-> QDiv(QSub(containerWidth, w), Whole(2)),
                           offsetY |-> Whole(0)]
         IN  [status |-> "drawn",
              displayedImageWidth |-> displayed.width,
              displayedImageHeight |-> displayed.height,
              offsetX |-> displayed.offsetX,
              offsetY |-> displayed.offsetY,
              x |-> QAdd(QMul(Norm(tree.boundingBox.x), displayed.width),
                         displayed.offsetX),
              y |-> QAdd(QMul(Norm(tree.boundingBox.y), displayed.height),
                         displayed.offsetY),
              width |-> QMul(Norm(tree.boundingBox.width), displayed.width),
              height |-> QMul(Norm(tree.boundingBox.height), displayed.height)]

\* sizes reported by onLayout and Image.getSize; 0 until they are known
Sides == 0..MaxSide
\* normalized boxes: one inside the image, the whole image
DrawnBoxes ==
    {[x |-> Den \div 4, y |-> Den \div 2, width |-> Den \div 2, height |-> Den \div 4],
     [x |-> 0, y |-> 0, width |-> Den, height |-> Den]}

InitLayout ==
    /\ DecodeInit
    /\ CropInit
    /\ ScreenInit
    /\ PreInit
    /\ UpdateInit
    /\ written = <<>>
    /\ CallerInit
    /\ DetailInit
    /\ \E cw \in Sides, ch \in Sides, iw \in Sides, ih \in Sides, b \in DrawnBoxes :
         boxIn = [present |-> TRUE,
                  imageSize |-> [width |-> cw, height |-> ch],
                  actualImageSize |-> [width |-> iw, height |-> ih],
                  box |-> b]
    /\ boxOut = [status |-> "none"]

\* one render of each screen with the same sizes and the same box
RenderBoxes ==
    /\ boxOut.status = "none"
    /\ boxOut' =
           [status |-> "rendered",
            detection |-> RenderBoundingBoxes(boxIn.imageSize, boxIn.actualImageSize,
                              [id |-> TreeId(1), x |-> boxIn.box.x, y |-> boxIn.box.y,
                               width |-> boxIn.box.width,
                               height |-> boxIn.box.height, selected |-> TRUE]),
            detail |-> RenderBoundingBox(boxIn.imageSize, boxIn.actualImageSize,
                              [present |-> TRUE, boundingBox |-> boxIn.box])]
    /\ UNCHANGED <<decodeVars, cropVars, screenVars, preVars, boxIn, updateVars,
                   written, callerVars, detailVars>>

NextLayout == RenderBoxes

SpecLayout == InitLayout /\ [][NextLayout]_vars

-----------------------------------------------------------------------------
(* updateTree on its own, over the table two saves and an analysis left *)

\* values a caller may hand over, per field of Partial<TreeRecord>
UpdateValues ==
    [description |-> "oak, leaning",
     additionalImages |-> <<AssetUri(1)>>,
     taxonName |-> "Tilia cordata",
     cropPath |-> CropPathOf(7),
     dateTaken |-> 1]
\* the ids of the two stored trees and one that is not stored
UpdateIds == {1, 2, 3}

InitUpdate ==
    /\ DecodeInit
    /\ CropInit
    /\ PreInit
    /\ PageInit
    /\ LayoutInit
    /\ written = <<>>
    /\ CallerInit
    /\ DetailInit
    /\ db = Connection
    /\ initialized = TRUE
    /\ trees = VisitedTrees
    /\ nextTreeId = 3
    /\ updIn = [present |-> FALSE]
    /\ updOut = [status |-> "none", calls |-> 0]

\* one call updateTree(id, updates), from the call to its return or throw
UpdateTreeCalled ==
    /\ updOut.calls < MaxUpdates
    /\ \E id \in UpdateIds, fields \in SUBSET DOMAIN UpdateValues, runOk \in BOOLEAN :
         LET updates == [f \in fields |-> UpdateValues[f]]
             o == UpdateTreeOutcome(trees, id, updates, runOk)
         IN  /\ updIn' = [present |-> TRUE, id |-> id, fields |-> fields,
                          rows |-> trees]
             /\ updOut' = [status |-> o.status, issued |-> o.issued,
                           calls |-> updOut.calls + 1]
             /\ trees' = o.trees
    /\ UNCHANGED <<decodeVars, cropVars, preVars, layoutVars, written, callerVars,
                   detailVars, detectedTrees, loading, saving, alerts, detPc,
                   saveVars, clock, modelPc, dbPc, db, initialized, nextTreeId>>

NextUpdate == UpdateTreeCalled

SpecUpdate == InitUpdate /\ [][NextUpdate]_vars

-----------------------------------------------------------------------------
(* TreeDatabase.init() under its callers: initializeDatabase on mount,      *)
(* getAllTrees for loadTrees on focus, insertTree for a save.  A caller     *)
(* runs from await to await; the others run in between.                     *)

\* the n-th connection openDatabaseAsync hands out (useNewConnection: true)
Handle(n) == Connection \o "#" \o ToString(n)

InitCallers ==
    /\ DecodeInit
    /\ CropInit
    /\ ScreenInit
    /\ PreInit
    /\ UnitInit
    /\ DetailInit

\* a caller reaches init(): with the database initialized it returns at once
\* (getAllTrees and insertTree do not even call it), otherwise it calls
\* openDatabaseAsync and awaits the connection
InitCalled ==
    /\ \E c \in Callers :
         /\ initPc[c].at = "idle"
         /\ IF initialized /\ db # Null
            THEN /\ initPc' = [initPc EXCEPT ![c] = [at |-> "done"]]
                 /\ opened' = opened
            ELSE /\ opened' = opened + 1
                 /\ initPc' = [initPc EXCEPT
                                  ![c] = [at |-> "open", handle |-> opened + 1]]
    /\ UNCHANGED <<decodeVars, cropVars, screenVars, preVars, layoutVars,
                   updateVars, written, detailVars>>

\* openDatabaseAsync settles: the connection is assigned to this.db and the
\* schema statements are awaited, or the catch block runs
InitOpened ==
    /\ \E c \in Callers, ok \in BOOLEAN :
         /\ initPc[c].at = "open"
         /\ IF ok
            THEN /\ db' = Handle(initPc[c].handle)
                 /\ initialized' = initialized
                 /\ initPc' = [initPc EXCEPT ![c] = [at |-> "exec"]]
            ELSE /\ db' = db
                 /\ initialized' = FALSE
                 /\ initPc' = [initPc EXCEPT ![c] = [at |-> "thrown"]]
    /\ UNCHANGED <<decodeVars, cropVars, preVars, layoutVars, updateVars, written,
                   opened, detailVars, detectedTrees, loading, saving, alerts,
                   detPc, saveVars, clock, modelPc, dbPc, trees, nextTreeId>>

\* the schema statements settle: initialized is set, or the catch block runs
InitExecuted ==
    /\ \E c \in Callers, ok \in BOOLEAN :
         /\ initPc[c].at = "exec"
         /\ initialized' = ok
         /\ initPc' = [initPc EXCEPT
                          ![c] = [at |-> IF ok THEN "done" ELSE "thrown"]]
    /\ UNCHANGED <<decodeVars, cropVars, preVars, layoutVars, updateVars, written,
                   opened, detailVars, detectedTrees, loading, saving, alerts,
                   detPc, saveVars, clock, modelPc, dbPc, db, trees, nextTreeId>>

NextCallers ==
    \/ InitCalled
    \/ InitOpened
    \/ InitExecuted

SpecCallers == InitCallers /\ [][NextCallers]_vars

-----------------------------------------------------------------------------
(* The files the crops write: cropTreeWithDimensions for the trees of a     *)
(* save, cropDefect for the defects of an analysis, and the wall clock      *)

\* the batches that wrote the files w
BatchCount(w) == IF w = <<>> THEN 0 ELSE w[Len(w)].batch

\* answers of the defect detection API whose kept results are all on the crop
PathResponses ==
    {<<ApiResult(TreeCropKey, "crack", 90, <<0, 0, 640, 640>>)>>,
     <<ApiResult(TreeCropKey, "crack", 90, <<0, 0, 640, 640>>),
       ApiResult(TreeCropKey, "crack", 80, <<640, 0, 1280, 640>>)>>,
     <<ApiResult(TreeCropKey, "dry rot", 90, <<0, 0, 640, 640>>),
       ApiResult(TreeCropKey, "dry_rot", 80, <<640, 0, 1280, 640>>)>>}

InitPaths ==
    /\ DecodeInit
    /\ CropInit
    /\ ScreenInit
    /\ PreInit
    /\ UnitInit
    /\ DetailInit

\* the crops of one save of n detections: each cropTreeWithDimensions copies
\* the result of the image manipulator to tree_crop_<file name of the result>;
\* the manipulator names its results itself, the k-th file written gets name k
CropTreesOfSave ==
    /\ BatchCount(written) < MaxBatches
    /\ \E n \in 1..2 :
         written' = written \o
             [k \in 1..n |->
                 [fn |-> "cropTreeWithDimensions",
                  owner |-> TreeId(k),
                  tag |-> "tree_crop",
                  now |-> clock,
                  batch |-> BatchCount(written) + 1,
                  path |-> CropPathOf(Len(written) + k)]]
    /\ UNCHANGED <<decodeVars, cropVars, screenVars, preVars, layoutVars,
                   updateVars, callerVars, detailVars>>

\* the crops of one processDefectsForTree: each cropDefect copies the result
\* to the defect file name
CropDefectsOfPass ==
    /\ BatchCount(written) < MaxBatches
    /\ \E treeId \in {1, 2}, results \in PathResponses :
         LET o == ProcessDefectsForTree(treeId, CropPathOf(treeId), <<>>,
                      results, "resolves", clock)
         IN  written' = written \o
                 [k \in 1..Len(o.records) |->
                     [fn |-> "cropDefect",
                      owner |-> ToString(treeId),
                      tag |-> o.records[k].defect_type,
                      now |-> clock,
                      batch |-> BatchCount(written) + 1,
                      path |-> o.records[k].crop_path]]
    /\ UNCHANGED <<decodeVars, cropVars, screenVars, preVars, layoutVars,
                   updateVars, callerVars, detailVars>>

NextPaths ==
    \/ CropTreesOfSave
    \/ CropDefectsOfPass
    \/ Tick

SpecPaths == InitPaths /\ [][NextPaths]_vars

-----------------------------------------------------------------------------
(* Properties of the decoder, checked under SpecDecode *)

\* the rows the data of tensor f holds, and row i (0-based) of them
DataRows(f) == Len(f.data) \div RowStride
RowAt(f, i) == SubSeq(f.data, i * RowStride + 1, i * RowStride + RowStride)
\* f has the shape [1, N, 6] with every row of its data declared
WellShaped(f) ==
    f.present /\ Len(f.dims) = 3 /\ f.dims[2] >= DataRows(f)
AboveThreshold(f) == {i \in 0..(DataRows(f) - 1) : 2 * RowAt(f, i)[5] > 100}
InsideInput(row) ==
    /\ 0 <= row[1] /\ row[1] <= row[3] /\ row[3] <= 640
    /\ 0 <= row[2] /\ row[2] <= row[4] /\ row[4] <= 640
Coordinates(t) == <<t.x, t.y, t.width, t.height, t.xbr, t.ybr>>
Returned == yoloResult.status = "returned"
Boxes == yoloResult.trees

\* C1: every coordinate field of every returned box lies in [0,1], also for
\* rows with negative corners, corners beyond the input side, or x2 < x1.
C1_ClampInvariant ==
    Returned =>
        \A k \in 1..Len(Boxes) : \A j \in 1..6 :
            0 <= Coordinates(Boxes[k])[j] /\ Coordinates(Boxes[k])[j] <= Den

C1_Witness ==
    /\ Returned /\ WellShaped(fetches) /\ Len(Boxes) = 2
    /\ \E i \in AboveThreshold(fetches) : RowAt(fetches, i)[1] < 0
    /\ \E i \in AboveThreshold(fetches) : RowAt(fetches, i)[3] < RowAt(fetches, i)[1]
    /\ \E i \in AboveThreshold(fetches) : RowAt(fetches, i)[4] > 640

\* C2: every returned box has xbr = x + width and ybr = y + height on its
\* emitted fields.
C2_BottomRightIsSum ==
    Returned =>
        \A k \in 1..Len(Boxes) :
            /\ Boxes[k].xbr = Boxes[k].x + Boxes[k].width
            /\ Boxes[k].ybr = Boxes[k].y + Boxes[k].height

\* tensor f with its rows in the order p
Permuted(f, p) ==
    Tensor(f.dims, Flatten([i \in 1..DataRows(f) |-> RowAt(f, p[i] - 1)]))
DistinctConfidences(f) ==
    \A i, j \in AboveThreshold(f) : i # j => RowAt(f, i)[5] # RowAt(f, j)[5]
Occurrences(seq, c) == Cardinality({k \in 1..Len(seq) : seq[k].confidence = c})

\* C3: the returned boxes are the rows above the threshold ranked by
\* confidence, non-increasing, the box at rank k (1-based) has id tree_k, and
\* with pairwise distinct confidences every permutation of the rows returns
\* the same sequence.
C3_Ordering ==
    (Returned /\ WellShaped(fetches)) =>
        /\ \A k \in 1..(Len(yoloResult.ranked) - 1) :
              yoloResult.ranked[k].confidence >= yoloResult.ranked[k + 1].confidence
        /\ \A c \in Confidences :
              Occurrences(yoloResult.ranked, c) =
                  Cardinality({i \in AboveThreshold(fetches) : RowAt(fetches, i)[5] = c})
        /\ Len(Boxes) = Len(yoloResult.ranked)
        /\ \A k \in 1..Len(Boxes) :
              /\ Boxes[k].id = "tree_" \o ToString(k)
              /\ Coordinates(Boxes[k]) = Coordinates(yoloResult.ranked[k].tree)
        /\ DistinctConfidences(fetches) =>
              \A p \in Permutations(1..DataRows(fetches)) :
                  Decode(yoloModel, Permuted(fetches, p)).trees = Boxes

C3_Witness ==
    /\ Returned /\ WellShaped(fetches) /\ Len(Boxes) = 2
    /\ RowAt(fetches, 0)[5] < RowAt(fetches, 1)[5]
    /\ Coordinates(Boxes[1]) # Coordinates(Boxes[2])

\* C4: exactly one box is returned per row whose confidence is strictly
\* greater than 0.5 (a row at exactly 0.5 gives none), and with no such row
\* the call returns the empty sequence and throws nothing.
C4_Threshold ==
    (WellShaped(fetches) /\ yoloResult.status # "none") =>
        /\ Returned
        /\ Len(Boxes) = Cardinality(AboveThreshold(fetches))

C4_Witness ==
    /\ Returned /\ WellShaped(fetches) /\ DataRows(fetches) = 2
    /\ RowAt(fetches, 0)[5] = 50 /\ RowAt(fetches, 1)[5] = 51
    /\ Len(Boxes) = 1

\* tensor f with the class id of row i replaced by cls[i]
Reclassed(f, cls) ==
    Tensor(f.dims, [j \in 1..Len(f.data) |->
                        IF j % RowStride = 0 THEN cls[j \div RowStride]
                        ELSE f.data[j]])

\* C5: a kept row with 0 <= x1 <= x2 <= 640 and 0 <= y1 <= y2 <= 640 gives the
\* box x = x1/640, y = y1/640, width = (x2-x1)/640, height = (y2-y1)/640,
\* xbr = x2/640, ybr = y2/640, selected; the class ids do not influence the
\* result.
C5_Conversion ==
    (Returned /\ WellShaped(fetches)) =>
        /\ \A i \in AboveThreshold(fetches) :
              LET row == RowAt(fetches, i)
              IN  InsideInput(row) =>
                    \E k \in 1..Len(Boxes) :
                        /\ 640 * Boxes[k].x = Den * row[1]
                        /\ 640 * Boxes[k].y = Den * row[2]
                        /\ 640 * Boxes[k].width = Den * (row[3] - row[1])
                        /\ 640 * Boxes[k].height = Den * (row[4] - row[2])
                        /\ 640 * Boxes[k].xbr = Den * row[3]
                        /\ 640 * Boxes[k].ybr = Den * row[4]
                        /\ Boxes[k].selected = TRUE
        /\ \A cls \in [1..DataRows(fetches) -> ClassIds] :
              Decode(yoloModel, Reclassed(fetches, cls)).trees = Boxes

C5_Witness ==
    /\ Returned /\ WellShaped(fetches) /\ Len(Boxes) = 1
    /\ DataRows(fetches) = 2
    /\ RowAt(fetches, 0) = <<100, 100, 300, 300, 90, 0>>
    /\ RowAt(fetches, 1)[5] = 50
    /\ Coordinates(Boxes[1]) = <<500, 500, 1000, 1000, 1500, 1500>>

\* C8: runYOLOInference throws when the output tensor is absent and when the
\* detection-count dimension dims[1] cannot be read; it returns no list then.
C8_ErrorOnUnreadableOutput ==
    (yoloResult.status # "none" /\ (~fetches.present \/ Len(fetches.dims) < 2)) =>
        yoloResult.status = "thrown"

-----------------------------------------------------------------------------
(* Properties of the crop rectangle, checked under SpecCrop *)

CroppedBy(fn) == cropOut.status = "cropped" /\ cropOut.fn = fn
\* p is r * side rounded to the nearest integer
IsRounded(p, r, side) ==
    2 * Den * p - Den <= 2 * r * side /\ 2 * r * side < 2 * Den * p + Den

\* C6: for every box and every image of at least 2x2 pixels the crop
\* rectangle of cropTreeWithDimensions and of cropDefect has
\* 0 <= clampedX, clampedWidth >= 1, clampedX + clampedWidth <= imageWidth,
\* and the same vertically.
C6_CropInsideImage ==
    (cropOut.status = "cropped" /\ cropIn.imageWidth >= 2 /\ cropIn.imageHeight >= 2) =>
        /\ 0 <= cropOut.rect.originX
        /\ cropOut.rect.width >= 1
        /\ cropOut.rect.originX + cropOut.rect.width <= cropIn.imageWidth
        /\ 0 <= cropOut.rect.originY
        /\ cropOut.rect.height >= 1
        /\ cropOut.rect.originY + cropOut.rect.height <= cropIn.imageHeight

\* box (0.999, 0.999, 0.5, 0.5) on a 100x100 image
C6_Witness ==
    /\ CroppedBy("cropTreeWithDimensions")
    /\ cropIn = [a |-> 3197, b |-> 3197, c |-> 1600, d |-> 1600,
                 imageWidth |-> 100, imageHeight |-> 100]
    /\ cropOut.pixels = [pixelX |-> 100, pixelY |-> 100,
                         pixelWidth |-> 50, pixelHeight |-> 50]
    /\ cropOut.rect = [originX |-> 99, originY |-> 99, width |-> 1, height |-> 1]

\* C7: when the rounded pixel rectangle has its origin inside the image, a
\* size of at least 1 and lies within the image, cropTreeWithDimensions
\* crops exactly that rectangle; box (0.1, 0.1, 0.2, 0.2) on 1000x800 gives
\* (100, 80, 200, 160).
C7_ClampIsIdentityOnValid ==
    CroppedBy("cropTreeWithDimensions") =>
        LET px == cropOut.pixels
            W == cropIn.imageWidth
            H == cropIn.imageHeight
        IN  /\ IsRounded(px.pixelX, cropIn.a, W)
            /\ IsRounded(px.pixelY, cropIn.b, H)
            /\ IsRounded(px.pixelWidth, cropIn.c, W)
            /\ IsRounded(px.pixelHeight, cropIn.d, H)
            /\ ( /\ 0 <= px.pixelX /\ px.pixelX <= W - 1
                 /\ 0 <= px.pixelY /\ px.pixelY <= H - 1
                 /\ px.pixelWidth >= 1 /\ px.pixelX + px.pixelWidth <= W
                 /\ px.pixelHeight >= 1 /\ px.pixelY + px.pixelHeight <= H )
               => cropOut.rect = [originX |-> px.pixelX, originY |-> px.pixelY,
                                  width |-> px.pixelWidth, height |-> px.pixelHeight]

C7_Witness ==
    /\ CroppedBy("cropTreeWithDimensions")
    /\ cropIn = [a |-> 320, b |-> 320, c |-> 640, d |-> 640,
                 imageWidth |-> 1000, imageHeight |-> 800]
    /\ cropOut.rect = [originX |-> 100, originY |-> 80, width |-> 200, height |-> 160]

-----------------------------------------------------------------------------
(* Properties of the save on the detection screen, checked under Spec *)

Last(seq) == seq[Len(seq)]
NoneSelected == \A k \in 1..Len(detectedTrees) : ~detectedTrees[k].selected
\* a step in which saveSelectedTrees is invoked
SaveInvoked == savePc = "idle" /\ savePc' # "idle"

\* C9: saveSelectedTrees invoked with no detection selected tells the user to
\* select at least one tree and returns; no crop is made, no tree record is
\* inserted and the record store is unchanged.
C9_EmptySelectionRefused ==
    /\ [][(SaveInvoked /\ NoneSelected) =>
            /\ alerts' = Append(alerts, AlertNoSelection)
            /\ savePc' = "alert"
            /\ saving' = FALSE
            /\ cropCalls' = cropCalls
            /\ trees' = trees
            /\ nextTreeId' = nextTreeId]_vars
    /\ [](savePc \in {"crop", "insert"} => selectedTrees # <<>>)

C9_Witness ==
    /\ savePc = "alert"
    /\ Len(detectedTrees) = 2
    /\ NoneSelected
    /\ selectedTrees = <<>>
    /\ Last(alerts) = AlertNoSelection
    /\ cropCalls = <<>>
    /\ trees = <<>>

\* C10: a crop that fails during a save does not end the batch: the record of
\* that detection is inserted with an empty crop reference, the other
\* selected detections are cropped and inserted, and the user sees no error
\* for it (the failure alert is raised only when insertTree fails).
C10_CropFailureTolerated ==
    (savePc = "alert" /\ selectedTrees # <<>>) =>
        LET n == Len(selectedTrees)
        IN  /\ Last(SaveAlerts) = AlertSaveFailed <=> insertFailed
            /\ ~insertFailed =>
                 /\ Last(SaveAlerts) = AlertSaved
                 /\ Len(trees) >= n
                 /\ Len(cropCalls) >= n
                 /\ \A k \in 1..n :
                      LET row == trees[Len(trees) - n + k]
                      IN  /\ row.boundingBoxX = selectedTrees[k].x
                          /\ row.boundingBoxY = selectedTrees[k].y
                          /\ row.boundingBoxWidth = selectedTrees[k].width
                          /\ row.boundingBoxHeight = selectedTrees[k].height
                          /\ (row.cropPath = "" <=> k \in cropFailed)
                          /\ cropCalls[Len(cropCalls) - n + k] = selectedTrees[k].id

C10_Witness ==
    /\ savePc = "alert"
    /\ ~insertFailed
    /\ Len(selectedTrees) = 2
    /\ cropFailed = {1}
    /\ Len(trees) = 2
    /\ trees[1].cropPath = ""
    /\ trees[2].cropPath # ""
    /\ Last(alerts) = AlertSaved

\* the rows the save has inserted, and the crops it has made, since its press
Batch == SubSeq(trees, atPress.rows + 1, Len(trees))
BatchCrops == SubSeq(cropCalls, atPress.crops + 1, Len(cropCalls))
WasSelected(t) == t.selected
SaveSucceeded == savePc = "alert" /\ Last(SaveAlerts) = AlertSaved

\* C11: a save that completes without error has added exactly one tree
\* record per detection that was selected when save was pressed and none for
\* an unselected one; each record carries that detection's x, y, width and
\* height, the source image reference, the one dateTaken of the batch, an
\* empty description and an empty list of auxiliary images.
C11_SaveAddsSelected ==
    SaveSucceeded =>
        LET chosen == SelectSeq(atPress.list, WasSelected)
        IN  /\ Len(Batch) = Len(chosen)
            /\ \A k \in 1..Len(chosen) :
                 /\ Batch[k].boundingBoxX = chosen[k].x
                 /\ Batch[k].boundingBoxY = chosen[k].y
                 /\ Batch[k].boundingBoxWidth = chosen[k].width
                 /\ Batch[k].boundingBoxHeight = chosen[k].height
                 /\ Batch[k].imageUri = imageUri
                 /\ Batch[k].dateTaken = Batch[1].dateTaken
                 /\ Batch[k].description = ""
                 /\ Batch[k].additionalImages = <<>>

C11_Witness ==
    /\ SaveSucceeded
    /\ Len(atPress.list) = 2
    /\ ~atPress.list[1].selected
    /\ atPress.list[2].selected
    /\ detectedTrees[1].selected
    /\ Len(trees) = 1
    /\ trees[1].boundingBoxX = atPress.list[2].x
    /\ trees[1].dateTaken = 0
    /\ clock = 1

\* the alerts raised by runTreeDetection
IsDetectAlert(a) == a \in {AlertDetectFailed, AlertNoTrees}
DetectAlerts == SelectSeq(alerts, IsDetectAlert)

\* C17: when preprocessing fails, or inference or decoding throws, the
\* detection run ends with exactly one error alert, the loading flag cleared
\* and the detection list left empty.
C17_DetectionFailureAborts ==
    (detPc = "done" /\ yoloResult.status # "returned") =>
        /\ DetectAlerts = <<AlertDetectFailed>>
        /\ detectedTrees = <<>>
        /\ ~loading

C17_Witness ==
    /\ detPc = "done"
    /\ yoloModel # Null
    /\ yoloResult.status = "thrown"
    /\ DetectAlerts = <<AlertDetectFailed>>
    /\ detectedTrees = <<>>

\* a detection without its selected flag
Unflagged(t) == [t EXCEPT !.selected = TRUE]
SameBoxes(a, b) ==
    /\ Len(a) = Len(b)
    /\ \A k \in 1..Len(a) : Unflagged(a[k]) = Unflagged(b[k])

\* C19: once the run has decoded, a step changes the detection list only by
\* flipping the selected flag of one box, leaving order, ids and coordinates
\* alone; a save crops and inserts the boxes selected at its press in the
\* order of the list, so the rank of a box is the same at every moment.
C19_OrderFixed ==
    /\ [][detPc = "done" =>
            \/ detectedTrees' = detectedTrees
            \/ \E k \in 1..Len(detectedTrees) :
                 detectedTrees' =
                     [detectedTrees EXCEPT ![k].selected = ~detectedTrees[k].selected]]_vars
    /\ [](savePc # "idle" =>
            /\ SameBoxes(atPress.list, detectedTrees)
            /\ selectedTrees = SelectSeq(atPress.list, WasSelected)
            /\ \A i, j \in 1..Len(detectedTrees) :
                 detectedTrees[i].id = detectedTrees[j].id => i = j
            /\ Len(BatchCrops) <= Len(selectedTrees)
            /\ Len(Batch) <= Len(selectedTrees)
            /\ \A k \in 1..Len(BatchCrops) : BatchCrops[k] = selectedTrees[k].id
            /\ \A k \in 1..Len(Batch) :
                 /\ Batch[k].boundingBoxX = selectedTrees[k].x
                 /\ Batch[k].boundingBoxY = selectedTrees[k].y
                 /\ Batch[k].boundingBoxWidth = selectedTrees[k].width
                 /\ Batch[k].boundingBoxHeight = selectedTrees[k].height)

C19_Witness ==
    /\ SaveSucceeded
    /\ Len(detectedTrees) = 2
    /\ ~detectedTrees[1].selected
    /\ detectedTrees[1].id = atPress.list[1].id
    /\ atPress.list[1].selected
    /\ atPress.list[2].selected
    /\ BatchCrops = <<detectedTrees[1].id, detectedTrees[2].id>>
    /\ Len(Batch) = 2

\* C20: within one save crops and inserts alternate: while the crop of the
\* k-th selected detection is awaited, k-1 crops and k-1 inserts of this save
\* have completed; while its insert is awaited, k crops and k-1 inserts have.
C20_SequentialSave ==
    /\ savePc = "crop" =>
         /\ Len(BatchCrops) = saveIdx - 1
         /\ Len(Batch) = saveIdx - 1
    /\ savePc = "insert" =>
         /\ Len(BatchCrops) = saveIdx
         /\ Len(Batch) = saveIdx - 1

C20_Witness ==
    /\ savePc = "crop"
    /\ saveIdx = 2
    /\ Len(BatchCrops) = 1
    /\ Len(Batch) = 1

-----------------------------------------------------------------------------
(* Properties of preprocessImage, checked under SpecPre *)

AlphaSamples == {px[4] : px \in Pixels}

\* C15: for a decoded side x side image of N pixels preprocessImage returns
\* 3*N elements with dims [1, 3, side, side], channel-major: element c*N + i
\* is sample c of pixel i over 255 for c in 0..2; no element is an alpha
\* sample and every element lies in [0, 1].
C15_ChannelMajorLayout ==
    (/\ preOut.status = "returned"
     /\ preIn.width = PreprocessSide
     /\ preIn.height = PreprocessSide) =>
        LET N == PreprocessSide * PreprocessSide
        IN  /\ Len(preOut.data) = 3 * N
            /\ preOut.dims = <<1, 3, PreprocessSide, PreprocessSide>>
            /\ \A c \in 0..2 : \A i \in 0..(N - 1) :
                 /\ preOut.data[c * N + i + 1].num = preIn.data[4 * i + c + 1]
                 /\ preOut.data[c * N + i + 1].den = 255
            /\ \A j \in 1..(3 * N) :
                 /\ 0 <= preOut.data[j].num
                 /\ preOut.data[j].num <= preOut.data[j].den
                 /\ preOut.data[j].num \notin AlphaSamples

C15_Witness ==
    /\ preOut.status = "returned"
    /\ preIn.width = PreprocessSide
    /\ preIn.height = PreprocessSide
    /\ SubSeq(preIn.data, 1, 8) = <<0, 128, 255, 77, 255, 51, 1, 200>>
    /\ Len(preOut.data) = 3 * PreprocessSide * PreprocessSide
    /\ preOut.data[2] = Ratio(255, 255)

\* C16: preprocessImage throws, and returns no tensor, whenever the resize
\* yields no image data or the decoded image is not exactly side x side.
C16_RejectsOtherSizes ==
    (/\ preOut.status # "none"
     /\ \/ ~preIn.present
        \/ preIn.width # PreprocessSide
        \/ preIn.height # PreprocessSide)
        => preOut = PreThrown

C16_Witness ==
    /\ preIn.present
    /\ preIn.width = PreprocessSide
    /\ preIn.height = PreprocessSide + 1
    /\ preOut = PreThrown

-----------------------------------------------------------------------------
(* Properties of the defects table, checked under SpecDefects *)

\* C12: at every reachable state, also after deleteTree and clearAllTrees,
\* the tree_id of every stored defect is the id of a stored tree.
C12_NoOrphanDefects ==
    \A k \in 1..Len(defects) :
        \E j \in 1..Len(trees) : trees[j].id = defects[k].tree_id

StoredFor(treeId) == SelectSeq(defects, LAMBDA d : d.tree_id = treeId)
PassSucceeds == alerts' = Append(alerts, AlertGenDone)

C14_DefectThreshold ==
    genPc \in {"insert", "update"} =>
        LET kept == SelectSeq(detectionResponse, LAMBDA r : r.confidence > 25)
            usable == SelectSeq(kept,
                          LAMBDA r : r.key \in {"tree_crop", "additional_0"})
        IN  /\ Len(detectedDefects) = Len(kept)
            /\ \A k \in 1..Len(kept) :
                 /\ detectedDefects[k].image_key = kept[k].key
                 /\ detectedDefects[k].defect_type = kept[k].label
                 /\ detectedDefects[k].defect_bbox =
                        <<kept[k].x1, kept[k].y1, kept[k].x2, kept[k].y2>>
            /\ Len(defectRecords) = Len(usable)
            /\ \A k \in 1..Len(usable) :
                 /\ defectRecords[k].xtl = usable[k].x1
                 /\ defectRecords[k].ytl = usable[k].y1
                 /\ defectRecords[k].xbr = usable[k].x2
                 /\ defectRecords[k].ybr = usable[k].y2
            /\ \A k \in 1..Len(insertedDefects) :
                 /\ insertedDefects[k].xtl = usable[k].x1
                 /\ insertedDefects[k].ytl = usable[k].y1
                 /\ insertedDefects[k].xbr = usable[k].x2
                 /\ insertedDefects[k].ybr = usable[k].y2
                 /\ \A j \in 1..Len(defects) :
                      defects[j].defect_id = insertedDefects[k].defect_id =>
                          defects[j] = insertedDefects[k]

C14_Witness ==
    /\ genPc = "update"
    /\ Len(detectionResponse) = 2
    /\ detectionResponse[1].confidence = 25
    /\ detectionResponse[2].confidence = 26
    /\ Len(detectedDefects) = 1
    /\ Len(insertedDefects) = 1
    /\ insertedDefects[1].xtl = detectionResponse[2].x1
    /\ StoredFor(genTree.id) = insertedDefects

-----------------------------------------------------------------------------
(* Properties of the photo list, checked under SpecPhotos *)

\* C18: once add-photo, deleteImage and generateDescription have all
\* completed, the stored list of auxiliary images of the tree holds every
\* image whose add completed and whose deletion was not confirmed.
C18_NoLostUpdate ==
    (/\ addPc = "idle"
     /\ delPc = "idle"
     /\ genPc = "idle"
     /\ HasTree(trees, detailId)) =>
        \A uri \in added \ removed :
            \E k \in 1..Len(GetTreeById(trees, detailId).additionalImages) :
                GetTreeById(trees, detailId).additionalImages[k] = uri

\* C25: when the first generateDescription of a visit has failed, the defects
\* stored for the tree, its description and its taxon are what they were
\* before the call (under SpecPhotos nothing else writes them, so they are
\* those of the initial state).
C25_FailureKeepsStored ==
    (/\ passes = 1
     /\ genPc = "idle"
     /\ \E k \in 1..Len(alerts) : alerts[k] = AlertGenFailed) =>
        /\ GetDefectsByTreeId(defects, detailId)
               = GetDefectsByTreeId(VisitedDefects, detailId)
        /\ GetTreeById(trees, detailId).description
               = GetTreeById(VisitedTrees, detailId).description
        /\ GetTreeById(trees, detailId).taxonName
               = GetTreeById(VisitedTrees, detailId).taxonName

-----------------------------------------------------------------------------
(* Properties of the crop files, checked under SpecPaths *)

SamePath(i, j) == written[i].path = written[j].path
SameOrigin(i, j) ==
    /\ written[i].fn = written[j].fn
    /\ written[i].owner = written[j].owner
    /\ written[i].tag = written[j].tag
    /\ written[i].now = written[j].now

-----------------------------------------------------------------------------
(* Properties of the drawn boxes, checked under SpecLayout *)

PositiveSizes ==
    /\ boxIn.imageSize.width > 0
    /\ boxIn.imageSize.height > 0
    /\ boxIn.actualImageSize.width > 0
    /\ boxIn.actualImageSize.height > 0

Contained(d) ==
    LET cw == Whole(boxIn.imageSize.width)
        ch == Whole(boxIn.imageSize.height)
        dw == d.displayedImageWidth
        dh == d.displayedImageHeight
    IN  /\ QEq(QMul(dw, Whole(boxIn.actualImageSize.height)),
                QMul(dh, Whole(boxIn.actualImageSize.width)))
        /\ \/ QEq(dw, cw) /\ QLe(dh, ch)
           \/ QEq(dh, ch) /\ QLe(dw, cw)
        /\ QLe(Whole(0), d.offsetX)
        /\ QLe(Whole(0), d.offsetY)
        /\ QEq(QAdd(QMul(Whole(2), d.offsetX), dw), cw)
        /\ QEq(QAdd(QMul(Whole(2), d.offsetY), dh), ch)
        /\ QEq(d.x, QAdd(QMul(Norm(boxIn.box.x), dw), d.offsetX))
        /\ QEq(d.y, QAdd(QMul(Norm(boxIn.box.y), dh), d.offsetY))
        /\ QEq(d.width, QMul(Norm(boxIn.box.width), dw))
        /\ QEq(d.height, QMul(Norm(boxIn.box.height), dh))

SameDrawing(a, b) ==
    \A f \in {"displayedImageWidth", "displayedImageHeight", "offsetX", "offsetY",
               "x", "y", "width", "height"} : QEq(a[f], b[f])

\* C22: for positive container and image sizes both screens draw the box of
\* a 'contain' letterbox: the displayed size has the aspect ratio of the image,
\* fills the container on one axis and does not exceed it on the other, the
\* offsets are not negative and centre the image, the box is scaled by the
\* displayed size and moved by the offsets, and the two screens agree.
C22_ContainLetterbox ==
    (boxOut.status = "rendered" /\ PositiveSizes) =>
        /\ boxOut.detection.status = "drawn"
        /\ boxOut.detail.status = "drawn"
        /\ Contained(boxOut.detection)
        /\ Contained(boxOut.detail)
        /\ SameDrawing(boxOut.detection, boxOut.detail)

C22_Witness ==
    /\ boxOut.status = "rendered"
    /\ boxIn.imageSize = [width |-> 3, height |-> 2]
    /\ boxIn.actualImageSize = [width |-> 1, height |-> 2]
    /\ boxIn.box.x = Den \div 4
    /\ boxOut.detection.status = "drawn"
    /\ QEq(boxOut.detection.displayedImageWidth, Whole(1))
    /\ QEq(boxOut.detection.offsetX, Whole(1))
    /\ QEq(boxOut.detection.x, Ratio(5, 4))
    /\ QEq(boxOut.detail.y, Whole(1))

-----------------------------------------------------------------------------
(* Properties of updateTree, checked under SpecUpdate *)

Settable == {"description", "additionalImages", "taxonName"}
\* the fields of the last call that updateTree may set
Given == updIn.fields \cap Settable

\* C23: updateTree leaves every record with another id as it was and, in the
\* record with the given id, every field that is not one of description,
\* additionalImages and taxonName present in the update; a present one takes
\* the given value when the statement succeeds; without any of the three no
\* statement is issued and nothing changes.
C23_UpdateTreeFrame ==
    updIn.present =>
        /\ Len(trees) = Len(updIn.rows)
        /\ \A k \in 1..Len(trees) :
             /\ trees[k].id # updIn.id => trees[k] = updIn.rows[k]
             /\ DOMAIN trees[k] = DOMAIN updIn.rows[k]
             /\ \A f \in DOMAIN trees[k] :
                  IF f \in Given /\ trees[k].id = updIn.id
                        /\ updOut.status = "returned"
                  THEN trees[k][f] = UpdateValues[f]
                  ELSE trees[k][f] = updIn.rows[k][f]
        /\ Given = {} => (updOut.issued = 0 /\ updOut.status = "returned")
        /\ Given # {} => updOut.issued = 1

C23_Witness ==
    /\ updIn.present
    /\ updIn.id = 1
    /\ updIn.fields = {"description", "cropPath", "dateTaken"}
    /\ updOut.status = "returned"
    /\ updOut.issued = 1
    /\ trees[1].description = "oak, leaning"
    /\ trees[1].description # updIn.rows[1].description
    /\ trees[1].cropPath = CropPathOf(1)
    /\ trees[1].taxonName = "Quercus robur"
    /\ trees[2] = updIn.rows[2]

-----------------------------------------------------------------------------
(* Properties of TreeDatabase.init(), checked under SpecCallers *)

\* C24: whatever the interleaving of the callers of init(), openDatabaseAsync
\* is called at most once, and once initialized is set with a connection in
\* db, db is never assigned again.
C24_OpenedOnce ==
    /\ [](opened <= 1)
    /\ [][(initialized /\ db # Null) => db' = db]_vars

-----------------------------------------------------------------------------
(* Further properties of the detection screen, checked under Spec *)

\* C26: when saveSelectedTrees has reported that the trees could not be
\* saved, the table holds no record that was inserted by that save.
C26_FailedSaveStoresNothing ==
    (savePc = "alert" /\ Last(alerts) = AlertSaveFailed) =>
        Len(trees) = atPress.rows

\* C27: no two tree records hold the same detection of the run, however often
\* the save button is pressed (checked under SpecResave; the table is empty
\* when the screen opens and the detections of a run have distinct boxes).
C27_DetectionStoredOnce ==
    \A i, j \in 1..Len(trees) :
        i # j => TreeOfRow(trees[i]).boundingBox # TreeOfRow(trees[j]).boundingBox

\* C28: a run whose inference step finds no model handle (the load has not
\* finished, or it failed) does not run the model: nothing is fetched, the
\* call throws, the run ends with the detection-failed alert, loading off and
\* no detections; and the screen holds detections only when the handle is set.
C28_NoModelNoDetections ==
    /\ [][(detPc = "inference" /\ detPc' = "done" /\ yoloModel = Null) =>
            /\ fetches' = fetches
            /\ yoloResult'.status = "thrown"
            /\ alerts' = Append(alerts, AlertDetectFailed)
            /\ detectedTrees' = <<>>
            /\ ~loading']_vars
    /\ [](detectedTrees # <<>> => yoloModel # Null)
\* a run threw at inference while the model load was still pending
C28_Witness ==
    /\ modelPc = "start"
    /\ yoloModel = Null
    /\ detPc = "done"
    /\ yoloResult.status = "thrown"
    /\ alerts = <<AlertDetectFailed>>
    /\ detectedTrees = <<>>

\* C29: when the awaited calls settle (SpecLive), a detection run that has
\* begun ends with loading off and a save that has begun ends with saving off,
\* whatever path it takes; loading is on only until the run has ended and
\* saving is on exactly between a press with a selection and the end of the save.
C29_FlagsFollowOperations ==
    /\ (detPc \in {"preprocess", "inference"}) ~> (detPc = "done" /\ ~loading)
    /\ (savePc \in {"crop", "insert"}) ~> (savePc = "alert" /\ ~saving)
    /\ [](loading => detPc # "done")
    /\ [](saving <=> savePc \in {"crop", "insert"})
\* a run has ended and a save begun after it has ended in the outer catch
C29_Witness ==
    /\ detPc = "done"
    /\ ~loading
    /\ savePc = "alert"
    /\ insertFailed
    /\ ~saving

-----------------------------------------------------------------------------
(* Properties of processDefectsForTree, checked under SpecDefects *)

KnownKey(defect) ==
    defect.image_key = TreeCropKey \/ IsAdditionalKey(defect.image_key)
\* the images prepareImagesForDefectDetection submits for the analysed tree
SubmittedImages ==
    (IF genTree.cropPath # "" THEN {genTree.cropPath} ELSE {})
        \cup Range(genTree.additionalImages)

\* C30: the records processDefectsForTree has returned are, in order, one for
\* each detected defect whose key is tree_crop or additional_i (the others
\* are skipped and the later ones still processed); each carries the id of
\* the given tree and as image_path the tree crop for tree_crop and
\* additionalImages[i] for additional_i, which is an image that was submitted.
C30_RecordsNameSubmittedImages ==
    genPc \in {"insert", "update"} =>
        LET kept == SelectSeq(detectedDefects, KnownKey)
        IN  /\ Len(defectRecords) = Len(kept)
            /\ \A k \in 1..Len(defectRecords) :
                   /\ defectRecords[k].tree_id = genTree.id
                   /\ defectRecords[k].image_path \in SubmittedImages
                   /\ kept[k].image_key = TreeCropKey =>
                          defectRecords[k].image_path = genTree.cropPath
                   /\ \A i \in KeyIndices :
                          kept[k].image_key = AdditionalKey(i) =>
                              /\ i < Len(genTree.additionalImages)
                              /\ defectRecords[k].image_path
                                     = genTree.additionalImages[i + 1]
\* a result under an unknown key was skipped and the result after it, found
\* on the first additional photo, was recorded
C30_Witness ==
    /\ genPc = "insert"
    /\ Len(detectedDefects) = 2
    /\ ~KnownKey(detectedDefects[1])
    /\ Len(defectRecords) = 1
    /\ defectRecords[1].image_path = genTree.additionalImages[1]
    /\ defectRecords[1].tree_id = detailId

====
